---- MODULE Spec2Model ----
(***************************************************************************)
(* Workflow coordination core of forge-editor:                             *)
(*   - the phase daemon's ForgeState (scripts/forge-daemon.py),            *)
(*   - the validation protocol CLI (scripts/forge-state.py),               *)
(*   - the state daemon's key/value store and workflow stack               *)
(*     (scripts/forge-state-daemon.py),                                    *)
(*   - the hook's direct read of the state file (hooks/forge-hook.py).     *)
(* Timestamps and free-text fields (guidance, description) are left out:   *)
(* no transition reads them.                                               *)
(***************************************************************************)
EXTENDS Integers, Sequences, FiniteSets, TLC

VARIABLES
    state,        \* ForgeState.state, the phase daemon's in-memory document
    state_file,   \* .claude/local/forge-state.json as written by ForgeState._save
    request,      \* the command dict handed to ForgeDaemon.handle_command
    response,     \* the dict handle_command returned for it
    running,      \* ForgeDaemon.running: the daemon serves (false once stopped or killed)
    wf_file,      \* forge-state.py: the workflow document load_state() reads
    cli,          \* forge-state.py: the last invocation and its exit code
    sd_state,     \* ForgeStateDaemon.state, the state daemon's key/value store
    sd_file,      \* .claude/local/daemon-state.json
    sd_request,   \* the command handed to ForgeStateDaemon.process_command
    sd_response,  \* the dict process_command returned for it
    observed,     \* what the stack clients have seen: their commands and replies
    worker,       \* phase daemon: the handle_client threads and their locals
    round_start,  \* phase daemon: the document when the connected clients sent
    sd_worker,    \* state daemon: the handle_client threads and their locals
    inflight,     \* a save on its way to the disk, per program
    wf_disk,      \* forge-state.py: how much of the workflow file is on disk
    sd_tmp,       \* state daemon: daemon-state.tmp
    clock,        \* phase daemon: time.time(), in seconds since the daemon started
    last_activity,\* ForgeDaemon.last_activity
    listening,    \* ForgeDaemon.server_socket is open
    socket_file,  \* .claude/local/forge.sock exists
    main_pc,      \* ForgeDaemon.run: where the accept loop is
    idle_pc,      \* ForgeDaemon.idle_checker: where the thread is
    handler,      \* ForgeDaemon.handle_client: the thread serving a connection
    sd_daemon,    \* state daemon: the process, its socket and its PID file
    client,       \* forge-state-daemon.py main(): one client invocation
    hook,         \* forge-hook.py: the last hook run, its input and its answer
    approved      \* phase daemon: design_hash when confirm() last succeeded

phase_vars == <<state, state_file, request, response, running>>

cli_vars == <<wf_file, cli>>

stack_vars == <<sd_state, sd_file, sd_request, sd_response, observed>>

conc_vars == <<worker, round_start, sd_worker>>

crash_vars == <<inflight, wf_disk, sd_tmp>>

life_vars == <<clock, last_activity, listening, socket_file, main_pc, idle_pc, handler>>

client_vars == <<sd_daemon, client>>

\* What the phase daemon's threads never touch.
hook_vars == <<hook>>

ghost_vars == <<approved>>

peer_vars == <<client_vars, hook_vars, ghost_vars>>

env_vars == <<life_vars, peer_vars>>

(***************************************************************************)
(* Bounds of the model                                                     *)
(***************************************************************************)
MaxCheckpoints == 6
MaxRollback == 1
MaxObserved == 4
MaxObservedElsewhere == 1
MaxDepth == 3
MaxConcCheckpoints == 3
MaxStep == 3

(***************************************************************************)
(* forge-daemon.py: configuration                                          *)
(***************************************************************************)
MAX_PHASE == 5

PHASES ==
    [p \in 0..MAX_PHASE |->
        CASE p = 0 -> [name |-> "Input",    agent |-> "forge:input-agent"]
          [] p = 1 -> [name |-> "Analysis", agent |-> "forge:analysis-agent"]
          [] p = 2 -> [name |-> "Design",   agent |-> "forge:design-agent"]
          [] p = 3 -> [name |-> "Preview",  agent |-> "forge:preview-agent"]
          [] p = 4 -> [name |-> "Execute",  agent |-> "forge:execute-agent"]
          [] p = 5 -> [name |-> "Validate", agent |-> "forge:validate-agent"]]

\* The agent names a client may send: the six authorized ones and a stranger.
Agents == {PHASES[p].agent : p \in 0..MAX_PHASE} \cup {"forge:other-agent"}

\* The phase numbers a client may send with set-phase: the Execute phase (as
\* the confirmation-gate test sends it) and one on each side out of range.
PhaseInputs == {-1, 4, 6}

\* Design documents a client may send with set-design-hash.
Contents == {"design-a", "design-b", "design-c"}

\* hashlib.sha256(content).hexdigest()[:16]: a 64-bit fingerprint, so two
\* different documents may share one ("design-a" and "design-c" here).
compute_hash(content) ==
    CASE content = "design-a" -> "h1"
      [] content = "design-b" -> "h2"
      [] content = "design-c" -> "h1"

\* Python's None in design_hash.
None == "None"

(***************************************************************************)
(* forge-daemon.py: ForgeState                                             *)
(***************************************************************************)
\* _init_state: the fresh document.
InitState ==
    [forge_active |-> FALSE,
     phase |-> 0,
     confirmed |-> FALSE,
     checkpoints |-> <<>>,
     design_hash |-> None,
     requires_reconfirmation |-> FALSE,
     rollback_points |-> <<>>]

\* A response of handle_command; fields a command does not return are
\* "" / -1 / FALSE.
Resp(success, error) ==
    [success |-> success, error |-> error, phase |-> -1,
     advanced |-> FALSE, completed |-> FALSE, changed |-> FALSE]

\* The outcome of one ForgeState method: the document afterwards, the value
\* returned, and whether _save() was called.
Outcome(st, resp, saved) == [st |-> st, resp |-> resp, saved |-> saved]

\* An activate that keeps the checkpoints of the previous run.
activate_keeping_checkpoints(st) ==
    Outcome([st EXCEPT !.forge_active = TRUE,
                       !.phase = 0,
                       !.confirmed = FALSE,
                       !.design_hash = None,
                       !.requires_reconfirmation = FALSE,
                       !.rollback_points = <<>>],
            [Resp(TRUE, "") EXCEPT !.phase = 0],
            TRUE)

\* An activate that leaves the confirmation as it found it.
activate_keeping_confirmed(st) ==
    Outcome([st EXCEPT !.forge_active = TRUE,
                       !.phase = 0,
                       !.checkpoints = <<>>,
                       !.design_hash = None,
                       !.requires_reconfirmation = FALSE,
                       !.rollback_points = <<>>],
            [Resp(TRUE, "") EXCEPT !.phase = 0],
            TRUE)

\* ForgeState.activate
activate(st) ==
    Outcome([st EXCEPT !.forge_active = TRUE,
                       !.phase = 0,
                       !.confirmed = FALSE,
                       !.checkpoints = <<>>,
                       !.design_hash = None,
                       !.requires_reconfirmation = FALSE,
                       !.rollback_points = <<>>],
            [Resp(TRUE, "") EXCEPT !.phase = 0],
            TRUE)

\* A deactivate that forgets to save.
deactivate_unsaved(st) ==
    Outcome([st EXCEPT !.forge_active = FALSE], Resp(TRUE, ""), FALSE)

\* ForgeState.deactivate
deactivate(st) ==
    Outcome([st EXCEPT !.forge_active = FALSE], Resp(TRUE, ""), TRUE)

\* A confirm that is also accepted at the Preview phase.
confirm_also_at_preview(st) ==
    IF st.phase \notin {3, 4}
    THEN Outcome(st, Resp(FALSE, "Confirmation only valid for Execute phase (4)"), FALSE)
    ELSE Outcome([st EXCEPT !.requires_reconfirmation = FALSE,
                            !.confirmed = TRUE],
                 [Resp(TRUE, "") EXCEPT !.phase = 4],
                 TRUE)

\* A confirm that leaves requires_reconfirmation as it found it.
confirm_keeping_reconfirmation(st) ==
    IF st.phase # 4
    THEN Outcome(st, Resp(FALSE, "Confirmation only valid for Execute phase (4)"), FALSE)
    ELSE Outcome([st EXCEPT !.confirmed = TRUE],
                 [Resp(TRUE, "") EXCEPT !.phase = 4],
                 TRUE)

\* ForgeState.confirm
confirm(st) ==
    IF st.phase # 4
    THEN Outcome(st, Resp(FALSE, "Confirmation only valid for Execute phase (4)"), FALSE)
    ELSE Outcome([st EXCEPT !.requires_reconfirmation = FALSE,
                            !.confirmed = TRUE],
                 [Resp(TRUE, "") EXCEPT !.phase = 4],
                 TRUE)

\* A change test that forgets to compare the fingerprints.
design_changed_uncompared(st, new_hash) ==
    /\ st.design_hash # None
    /\ st.confirmed

\* set_design_hash, line 174: the design changed after confirmation.
design_changed_after_confirm(st, new_hash) ==
    /\ st.design_hash # None
    /\ st.design_hash # new_hash
    /\ st.confirmed

\* ForgeState.set_design_hash
set_design_hash(st, design_content) ==
    LET new_hash == compute_hash(design_content)
        old_hash == st.design_hash
        st1 == IF design_changed_after_confirm(st, new_hash)
               THEN [st EXCEPT !.requires_reconfirmation = TRUE,
                               !.confirmed = FALSE]
               ELSE st
    IN  Outcome([st1 EXCEPT !.design_hash = new_hash],
                [Resp(TRUE, "") EXCEPT
                    !.changed = (old_hash # None /\ old_hash # new_hash)],
                TRUE)

\* ForgeState.add_rollback_point
add_rollback_point(st) ==
    Outcome([st EXCEPT !.rollback_points = Append(@, [phase |-> st.phase])],
            Resp(TRUE, ""),
            TRUE)

\* A checkpoint that accepts any agent.
agent_matches_any(st, agent) == TRUE

\* checkpoint, lines 209-213: the agent is the one the current phase expects.
agent_matches(st, agent) == agent = PHASES[st.phase].agent

\* A confirmation check that looks at the wrong phase.
confirmation_missing_at_preview(st) == st.phase = 3 /\ ~st.confirmed

\* checkpoint, lines 220 and 227: the checks that guard the Execute phase.
confirmation_missing(st) == st.phase = 4 /\ ~st.confirmed

reconfirmation_needed(st) == st.phase = 4 /\ st.requires_reconfirmation

\* An advance that leaves the workflow active after the last phase.
advance_staying_active(st) ==
    IF st.phase < MAX_PHASE
    THEN [st EXCEPT !.phase = st.phase + 1]
    ELSE st

\* An advance that starts over after the last phase.
advance_wrapping(st) ==
    IF st.phase < MAX_PHASE
    THEN [st EXCEPT !.phase = st.phase + 1]
    ELSE [st EXCEPT !.phase = 0, !.forge_active = FALSE]

\* checkpoint, lines 242-263: the phase after a recorded checkpoint.
advance(st) ==
    IF st.phase < MAX_PHASE
    THEN [st EXCEPT !.phase = st.phase + 1]
    ELSE [st EXCEPT !.forge_active = FALSE]

\* An activity test that lets every checkpoint through.
not_active_never(st) == FALSE

\* checkpoint, line 206: the workflow is not active.
not_active(st) == ~st.forge_active

\* ForgeState.checkpoint
checkpoint(st, agent) ==
    IF not_active(st)
    THEN Outcome(st, Resp(FALSE, "Forge not active"), FALSE)
    ELSE IF ~agent_matches(st, agent)
    THEN Outcome(st, Resp(FALSE, "Agent does not match expected"), FALSE)
    ELSE IF confirmation_missing(st)
    THEN Outcome(st, Resp(FALSE, "Execute phase requires user confirmation first"), FALSE)
    ELSE IF reconfirmation_needed(st)
    THEN Outcome(st, Resp(FALSE, "Design was modified - reconfirmation required"), FALSE)
    ELSE LET rec == [st EXCEPT !.checkpoints =
                        Append(@, [phase |-> st.phase, agent |-> agent])]
         IN  Outcome(advance(rec),
                     IF st.phase < MAX_PHASE
                     THEN [Resp(TRUE, "") EXCEPT !.advanced = TRUE,
                                                 !.phase = st.phase + 1]
                     ELSE [Resp(TRUE, "") EXCEPT !.completed = TRUE],
                     TRUE)

\* A set_phase that leaves the confirmation as it found it.
set_phase_keeping_confirmed(st, n) ==
    IF n < 0 \/ n > MAX_PHASE
    THEN Outcome(st, Resp(FALSE, "Phase must be 0-5"), FALSE)
    ELSE Outcome([st EXCEPT !.phase = n],
                 [Resp(TRUE, "") EXCEPT !.phase = n],
                 TRUE)

\* ForgeState.set_phase
set_phase(st, n) ==
    IF n < 0 \/ n > MAX_PHASE
    THEN Outcome(st, Resp(FALSE, "Phase must be 0-5"), FALSE)
    ELSE Outcome([st EXCEPT !.phase = n, !.confirmed = FALSE],
                 [Resp(TRUE, "") EXCEPT !.phase = n],
                 TRUE)

\* ForgeState.get_phase
get_phase(st) == Outcome(st, [Resp(TRUE, "") EXCEPT !.phase = st.phase], FALSE)

(***************************************************************************)
(* The state file                                                          *)
(***************************************************************************)
\* What json.dump leaves in the file once the write has completed.
Written(st) == [content |-> "complete", doc |-> st]

\* ForgeState._save as one step of a command that is not interrupted.
_save(st) == Written(st)

\* forge-hook.py read_state_file followed by state.get("phase", 0),
\* state.get("forge_active", False) and state.get("confirmed", False): an
\* unreadable file reads as {}.
read_state_file(f) ==
    IF f.content = "complete"
    THEN [phase |-> f.doc.phase, forge_active |-> f.doc.forge_active,
          confirmed |-> f.doc.confirmed]
    ELSE [phase |-> 0, forge_active |-> FALSE, confirmed |-> FALSE]

(***************************************************************************)
(* forge-daemon.py: ForgeDaemon.handle_command, one command per step       *)
(***************************************************************************)
Req(cmd) == [cmd |-> cmd, agent |-> "", phase |-> -1, content |-> ""]

\* Apply a method's outcome: the document, the file when it saved, the reply.
Handle(req, out) ==
    /\ running
    /\ request' = req
    /\ state' = out.st
    /\ response' = out.resp
    /\ state_file' = IF out.saved THEN _save(out.st) ELSE state_file
    /\ UNCHANGED running
    /\ UNCHANGED <<cli_vars, stack_vars, conc_vars, crash_vars, env_vars>>

Activate == Handle(Req("activate"), activate(state))

Deactivate == Handle(Req("deactivate"), deactivate(state))

Confirm == Handle(Req("confirm"), confirm(state))

SetDesignHash ==
    \E c \in Contents :
        Handle([Req("set-design-hash") EXCEPT !.content = c],
               set_design_hash(state, c))

AddRollback ==
    /\ Len(state.rollback_points) < MaxRollback
    /\ Handle(Req("add-rollback"), add_rollback_point(state))

Checkpoint ==
    \E a \in Agents :
        /\ Len(state.checkpoints) < MaxCheckpoints
        /\ Handle([Req("checkpoint") EXCEPT !.agent = a], checkpoint(state, a))

SetPhase ==
    \E n \in PhaseInputs :
        Handle([Req("set-phase") EXCEPT !.phase = n], set_phase(state, n))

GetPhase == Handle(Req("get-phase"), get_phase(state))

\* The daemon process is killed between two commands.
Kill ==
    /\ running
    /\ running' = FALSE
    /\ UNCHANGED <<state, state_file, request, response>>
    /\ UNCHANGED <<cli_vars, stack_vars, conc_vars, crash_vars, env_vars>>

\* ForgeDaemon.__init__ on a workspace without a state file: _load_or_init
\* calls _init_state, which saves.
PhaseInit ==
    /\ state = InitState
    /\ state_file = _save(InitState)
    /\ request = Req("")
    /\ response = Resp(TRUE, "")
    /\ running = TRUE

PhaseNext ==
    \/ Activate
    \/ Deactivate
    \/ Confirm
    \/ SetDesignHash
    \/ AddRollback
    \/ Checkpoint
    \/ SetPhase
    \/ GetPhase
    \/ Kill

\* The commands of a run that does not use set_phase.
CheckpointRunNext ==
    \/ Activate
    \/ Deactivate
    \/ Confirm
    \/ SetDesignHash
    \/ AddRollback
    \/ Checkpoint
    \/ GetPhase
    \/ Kill

(***************************************************************************)
(* forge-state.py: the validation protocol CLI (direct file access)        *)
(***************************************************************************)
\* PHASES of forge-state.py, lines 45-53: the phase order.  The document's
\* "phases" map is kept as the sequence of their statuses in this order.
CLI_PHASES ==
    <<"connectivity_planning", "component_creation", "validation",
      "error_fixing", "analysis", "deployment">>

GATES ==
    {"connectivity_planned", "component_created", "validation_passed",
     "errors_fixed", "analysis_complete"}

\* One entry of a protocol's "validations".
Node(required, dependencies) ==
    [required |-> required, dependencies |-> dependencies]

WORKFLOW_PROTOCOLS ==
    [t \in {"wizard_routing", "skill_creation", "agent_creation",
            "command_creation", "plugin_publish", "quick_fix", "analyze_only"} |->
        CASE t = "wizard_routing" ->
                [n \in {"context_analysis", "intent_classification", "route_execution"} |->
                    CASE n = "context_analysis" -> Node(TRUE, {})
                      [] n = "intent_classification" -> Node(TRUE, {"context_analysis"})
                      [] n = "route_execution" -> Node(TRUE, {"intent_classification"})]
          [] t = "skill_creation" ->
                [n \in {"validate_all", "form_selection_audit", "content_quality_audit",
                        "functional_test", "plugin_test"} |->
                    CASE n = "validate_all" -> Node(TRUE, {})
                      [] n = "form_selection_audit" -> Node(TRUE, {})
                      [] n = "content_quality_audit" -> Node(FALSE, {"validate_all"})
                      [] n = "functional_test" ->
                            Node(TRUE, {"validate_all", "form_selection_audit"})
                      [] n = "plugin_test" -> Node(FALSE, {"functional_test"})]
          [] t = "agent_creation" ->
                [n \in {"validate_all", "form_selection_audit", "content_quality_audit",
                        "functional_test"} |->
                    CASE n = "validate_all" -> Node(TRUE, {})
                      [] n = "form_selection_audit" -> Node(TRUE, {})
                      [] n = "content_quality_audit" -> Node(FALSE, {"validate_all"})
                      [] n = "functional_test" -> Node(FALSE, {"validate_all"})]
          [] t = "command_creation" ->
                [n \in {"validate_all", "content_quality_audit", "functional_test"} |->
                    CASE n = "validate_all" -> Node(TRUE, {})
                      [] n = "content_quality_audit" -> Node(FALSE, {"validate_all"})
                      [] n = "functional_test" -> Node(FALSE, {"validate_all"})]
          [] t = "plugin_publish" ->
                [n \in {"validate_all", "form_selection_audit", "content_quality_audit",
                        "functional_test", "plugin_test", "marketplace_schema"} |->
                    CASE n = "validate_all" -> Node(TRUE, {})
                      [] n = "form_selection_audit" -> Node(TRUE, {})
                      [] n = "content_quality_audit" -> Node(TRUE, {"validate_all"})
                      [] n = "functional_test" -> Node(TRUE, {"validate_all"})
                      [] n = "plugin_test" -> Node(TRUE, {"functional_test"})
                      [] n = "marketplace_schema" -> Node(TRUE, {"validate_all"})]
          [] t = "quick_fix" ->
                [n \in {"validate_all"} |-> Node(TRUE, {})]
          [] t = "analyze_only" ->
                [n \in {"validate_all", "form_selection_audit", "content_quality_audit"} |->
                    CASE n = "validate_all" -> Node(TRUE, {})
                      [] n = "form_selection_audit" -> Node(FALSE, {"validate_all"})
                      [] n = "content_quality_audit" -> Node(FALSE, {"validate_all"})]]

\* cmd_mark_validation: the validations only an agent (through the hook) may pass.
AGENT_REQUIRED == {"form_selection_audit", "functional_test", "plugin_test"}

\* The workflow types, validation names, statuses a caller passes on the
\* command line ("no_such_type" and "bogus" are rejected by the CLI; in a
\* quick_fix workflow every name but validate_all is outside the protocol,
\* so marking it adds a dynamic validation).
WorkflowInputs == {"agent_creation", "skill_creation", "quick_fix", "no_such_type"}

MarkNames ==
    {"validate_all", "form_selection_audit", "content_quality_audit", "functional_test"}

MarkStatuses == {"executed", "passed", "failed", "bogus"}

\* load_state() when the file is missing or unreadable: None.
NoWorkflow ==
    [exists |-> FALSE, workflow_type |-> "", current_phase |-> "",
     phases |-> [i \in 1..Len(CLI_PHASES) |-> "pending"],
     validations |-> [n \in {} |-> 0],
     gates_passed |-> [g \in GATES |-> FALSE]]

\* One validation entry of the document.
Validation(status, required, dependencies, verified_by) ==
    [status |-> status, required |-> required,
     dependencies |-> dependencies, verified_by |-> verified_by]

\* create_initial_state
create_initial_state(workflow_type) ==
    LET protocol == WORKFLOW_PROTOCOLS[workflow_type]
    IN  [exists |-> TRUE,
         workflow_type |-> workflow_type,
         current_phase |-> "not_started",
         phases |-> [i \in 1..Len(CLI_PHASES) |-> "pending"],
         validations |->
            [n \in DOMAIN protocol |->
                Validation("pending", protocol[n].required,
                           protocol[n].dependencies, None)],
         gates_passed |-> [g \in GATES |-> FALSE]]

\* The result of one CLI command: the document it leaves in the file, the
\* process exit code, and what it prints: the unsatisfied dependencies
\* (check-deps) and the validations ready to run (suggest-parallel).
Exit(doc, code) ==
    [doc |-> doc, exit |-> code, failed_deps |-> {}, runnable |-> {}]

\* cmd_init
cmd_init(doc, workflow_type) ==
    IF workflow_type \notin DOMAIN WORKFLOW_PROTOCOLS
    THEN Exit(doc, 1)
    ELSE IF doc.exists /\ doc.current_phase # "not_started"
    THEN Exit(doc, 1)
    ELSE Exit(create_initial_state(workflow_type), 0)

\* cmd_mark_validation, lines 512-521: a name the document lacks is added
\* as a dynamic, optional validation without dependencies.
with_validation(doc, name) ==
    IF name \in DOMAIN doc.validations
    THEN doc
    ELSE [doc EXCEPT !.validations =
            [n \in DOMAIN doc.validations \cup {name} |->
                IF n = name
                THEN Validation("pending", FALSE, {}, None)
                ELSE doc.validations[n]]]

\* A bypass test that trusts every caller.
manual_bypass_never(name, from_hook) == FALSE

\* cmd_mark_validation, line 533: a manual attempt to pass a validation
\* that requires an agent.
manual_bypass(name, from_hook) == name \in AGENT_REQUIRED /\ ~from_hook

\* cmd_mark_validation
cmd_mark_validation(doc, name, status, from_hook) ==
    IF ~doc.exists
    THEN Exit(doc, 2)
    ELSE LET d == with_validation(doc, name)
         IN  CASE status = "executed" ->
                    Exit([d EXCEPT !.validations[name].status = "executed"], 0)
               [] status = "passed" /\ manual_bypass(name, from_hook) ->
                    Exit([d EXCEPT !.validations[name].status = "claimed",
                                   !.validations[name].verified_by = "manual_attempt"],
                         1)
               [] status = "passed" /\ ~manual_bypass(name, from_hook) ->
                    Exit([d EXCEPT !.validations[name].status = "passed",
                                   !.validations[name].verified_by =
                                        IF from_hook THEN "hook" ELSE "script",
                                   !.gates_passed["validation_passed"] =
                                        IF name = "validate_all" THEN TRUE ELSE @],
                         0)
               [] status = "failed" ->
                    Exit([d EXCEPT !.validations[name].status = "failed"], 0)
               [] OTHER -> Exit(doc, 1)

\* The status load_state() shows for a validation: "pending" when absent.
status_of(doc, name) ==
    IF name \in DOMAIN doc.validations
    THEN doc.validations[name].status
    ELSE "pending"

\* A dependency test that takes a dependency that was run for one that passed.
dep_unsatisfied_unless_run(dep_status) == dep_status \notin {"passed", "executed"}

\* cmd_check_deps, line 609: the dependency does not let the node run.
dep_unsatisfied(dep_status) == dep_status # "passed"

\* cmd_check_deps, lines 606-610: the (dependency, status) pairs it prints.
failed_deps(doc, name) ==
    {[dep |-> dep, status |-> status_of(doc, dep)] :
        dep \in {d \in doc.validations[name].dependencies :
                    dep_unsatisfied(status_of(doc, d))}}

\* cmd_check_deps
cmd_check_deps(doc, name) ==
    IF ~doc.exists THEN Exit(doc, 0)
    ELSE IF name \notin DOMAIN doc.validations THEN Exit(doc, 0)
    ELSE IF doc.validations[name].dependencies = {} THEN Exit(doc, 0)
    ELSE IF failed_deps(doc, name) # {}
    THEN [Exit(doc, 2) EXCEPT !.failed_deps = failed_deps(doc, name)]
    ELSE Exit(doc, 0)

\* cmd_verify_protocol, lines 645-660: the required validations it reports
\* as missing (pending, or executed but not verified) and as failed.
missing(doc) ==
    LET protocol == WORKFLOW_PROTOCOLS[doc.workflow_type]
    IN  {n \in DOMAIN protocol :
            protocol[n].required /\ status_of(doc, n) \in {"pending", "executed"}}

failed(doc) ==
    LET protocol == WORKFLOW_PROTOCOLS[doc.workflow_type]
    IN  {n \in DOMAIN protocol :
            protocol[n].required /\ status_of(doc, n) = "failed"}

\* cmd_verify_protocol
cmd_verify_protocol(doc) ==
    IF ~doc.exists THEN Exit(doc, 0)
    ELSE IF doc.workflow_type \notin DOMAIN WORKFLOW_PROTOCOLS THEN Exit(doc, 0)
    ELSE IF missing(doc) # {} \/ failed(doc) # {} THEN Exit(doc, 2)
    ELSE Exit(doc, 0)

\* A readiness test that never looks at the dependencies.
all_deps_passed_unread(doc, name) == TRUE

\* cmd_suggest_parallel, lines 716-720: every dependency of the validation
\* is passed.
all_deps_passed(doc, name) ==
    \A d \in doc.validations[name].dependencies :
        d \in DOMAIN doc.validations /\ doc.validations[d].status = "passed"

\* cmd_suggest_parallel, lines 710-722: the validations it prints.
runnable(doc) ==
    {name \in DOMAIN doc.validations :
        /\ doc.validations[name].status = "pending"
        /\ all_deps_passed(doc, name)}

\* cmd_suggest_parallel
cmd_suggest_parallel(doc) ==
    IF ~doc.exists THEN Exit(doc, 0)
    ELSE [Exit(doc, 0) EXCEPT !.runnable = runnable(doc)]

\* cmd_reset: the file is removed.
cmd_reset(doc) == Exit(NoWorkflow, 0)

\* main(): one invocation of forge-state.py.
Invocation(cmd, name, status, from_hook) ==
    [cmd |-> cmd, name |-> name, status |-> status,
     from_hook |-> from_hook, exit |-> 0, failed_deps |-> {}, runnable |-> {}]

\* Run a command: the file afterwards (save_state) and the exit code.
Run(inv, result) ==
    /\ wf_file' = result.doc
    /\ cli' = [inv EXCEPT !.exit = result.exit,
                           !.failed_deps = result.failed_deps,
                           !.runnable = result.runnable]
    /\ UNCHANGED <<phase_vars, stack_vars, conc_vars, crash_vars, env_vars>>

CliInit ==
    \E t \in WorkflowInputs :
        Run(Invocation("init", t, "", FALSE), cmd_init(wf_file, t))

\* --from-hook is read only when the status is "passed".
MarkValidation ==
    \E name \in MarkNames, status \in MarkStatuses :
      \E from_hook \in IF status = "passed" THEN BOOLEAN ELSE {FALSE} :
        Run(Invocation("mark-validation", name, status, from_hook),
            cmd_mark_validation(wf_file, name, status, from_hook))

CheckDeps ==
    \E name \in MarkNames :
        Run(Invocation("check-deps", name, "", FALSE), cmd_check_deps(wf_file, name))

VerifyProtocol ==
    Run(Invocation("verify-protocol", "", "", FALSE), cmd_verify_protocol(wf_file))

SuggestParallel ==
    Run(Invocation("suggest-parallel", "", "", FALSE), cmd_suggest_parallel(wf_file))

Reset == Run(Invocation("reset", "", "", FALSE), cmd_reset(wf_file))

\* The phase names given on the command line; "no_such_phase" is not in PHASES.
PhaseNames == {CLI_PHASES[i] : i \in 1..Len(CLI_PHASES)} \cup {"no_such_phase"}

\* PHASES.index(name)
phase_index(name) == CHOOSE i \in 1..Len(CLI_PHASES) : CLI_PHASES[i] = name

\* cmd_start_phase
cmd_start_phase(doc, name) ==
    IF ~doc.exists THEN Exit(doc, 2)
    ELSE IF \A i \in 1..Len(CLI_PHASES) : CLI_PHASES[i] # name THEN Exit(doc, 1)
    ELSE IF \E i \in 1..(phase_index(name) - 1) : doc.phases[i] # "completed"
    THEN Exit(doc, 2)
    ELSE Exit([doc EXCEPT !.current_phase = name,
                          !.phases[phase_index(name)] = "in_progress"], 0)

\* cmd_complete_phase
cmd_complete_phase(doc, name) ==
    IF ~doc.exists THEN Exit(doc, 2)
    ELSE IF \A i \in 1..Len(CLI_PHASES) : CLI_PHASES[i] # name THEN Exit(doc, 1)
    ELSE IF doc.phases[phase_index(name)] # "in_progress" THEN Exit(doc, 1)
    ELSE Exit([doc EXCEPT !.phases[phase_index(name)] = "completed"], 0)

StartPhase ==
    \E name \in PhaseNames :
        Run(Invocation("start-phase", name, "", FALSE), cmd_start_phase(wf_file, name))

CompletePhase ==
    \E name \in PhaseNames :
        Run(Invocation("complete-phase", name, "", FALSE),
            cmd_complete_phase(wf_file, name))

\* init of one workflow type: the phases are the same for every type.
PhaseWorkflowInit ==
    Run(Invocation("init", "quick_fix", "", FALSE), cmd_init(wf_file, "quick_fix"))

CliPhaseNext ==
    \/ PhaseWorkflowInit
    \/ StartPhase
    \/ CompletePhase
    \/ Reset

\* The gate names given on the command line; "no_such_gate" is not in GATES.
GateInputs == {"validation_passed", "component_created", "no_such_gate"}

\* cmd_pass_gate
cmd_pass_gate(doc, name) ==
    IF ~doc.exists THEN Exit(doc, 2)
    ELSE IF name \notin GATES THEN Exit(doc, 1)
    ELSE Exit([doc EXCEPT !.gates_passed[name] = TRUE], 0)

\* A fail-gate that leaves the gate as it was.
cmd_fail_gate_kept(doc, name) ==
    IF ~doc.exists THEN Exit(doc, 2)
    ELSE IF name \notin GATES THEN Exit(doc, 1)
    ELSE Exit(doc, 0)

\* cmd_fail_gate
cmd_fail_gate(doc, name) ==
    IF ~doc.exists THEN Exit(doc, 2)
    ELSE IF name \notin GATES THEN Exit(doc, 1)
    ELSE Exit([doc EXCEPT !.gates_passed[name] = FALSE], 0)

\* cmd_require_gate: without a workflow the caller is let through.
cmd_require_gate(doc, name) ==
    IF ~doc.exists THEN Exit(doc, 0)
    ELSE IF name \notin GATES THEN Exit(doc, 2)
    ELSE IF doc.gates_passed[name] THEN Exit(doc, 0)
    ELSE Exit(doc, 2)

PassGate ==
    \E name \in GateInputs :
        Run(Invocation("pass-gate", name, "", FALSE), cmd_pass_gate(wf_file, name))

FailGate ==
    \E name \in GateInputs :
        Run(Invocation("fail-gate", name, "", FALSE), cmd_fail_gate(wf_file, name))

RequireGate ==
    \E name \in GateInputs :
        Run(Invocation("require-gate", name, "", FALSE),
            cmd_require_gate(wf_file, name))

\* mark-validation validate_all <status>: passing it passes the
\* validation_passed gate as well.
GateMarkValidation ==
    \E status \in {"passed", "failed"} :
        Run(Invocation("mark-validation", "validate_all", status, FALSE),
            cmd_mark_validation(wf_file, "validate_all", status, FALSE))

GateNext ==
    \/ CliInit
    \/ PassGate
    \/ FailGate
    \/ RequireGate
    \/ GateMarkValidation
    \/ Reset

\* Before any invocation: no state file.
CliStart ==
    /\ wf_file = NoWorkflow
    /\ cli = Invocation("", "", "", FALSE)

CliNext ==
    \/ CliInit
    \/ MarkValidation
    \/ CheckDeps
    \/ VerifyProtocol
    \/ SuggestParallel
    \/ Reset

(***************************************************************************)
(* forge-state-daemon.py: the store and the workflow stack commands.       *)
(* self.state is one dict; its "workflow_stack:<session>" and              *)
(* "command_step:<session>:<workflow_type>" keys are kept as two maps, the  *)
(* "protocol:...", "gate:..." and remaining keys as three more.            *)
(* workflow_id and started_at of a stack entry are clock readings that no  *)
(* command reads back.                                                     *)
(***************************************************************************)
\* The sessions and workflow types the clients use.
Sessions == {"s1", "s2"}

WorkflowTypes == {"skill_creation", "quick_fix"}

\* The phase names a client may send with set-workflow-phase.
StackPhases == {"design"}

\* dict.get(key, default) and dict[key] = value on a map.
Get(d, key, default) == IF key \in DOMAIN d THEN d[key] ELSE default

Put(d, key, value) ==
    [k \in DOMAIN d \cup {key} |-> IF k = key THEN value ELSE d[k]]

\* del dict[key]
Del(d, key) == [k \in DOMAIN d \ {key} |-> d[k]]

\* ForgeStateDaemon.__init__ / load_state without a state file: self.state = {}
EmptyStore ==
    [workflow_stack |-> [k \in {} |-> <<>>],
     command_step |-> [k \in {} |-> 0],
     protocol |-> [k \in {} |-> ""],
     gate |-> [k \in {} |-> FALSE],
     counter |-> [k \in {} |-> 0]]

\* A response of process_command; fields a command does not return are
\* None / -1 / FALSE / empty.
SdResp(status, message) ==
    [status |-> status, message |-> message, workflow_type |-> None,
     popped |-> None, resumed_workflow |-> None, resume_phase |-> None,
     depth |-> -1, phase |-> None, step |-> -1, previous_step |-> -1,
     allowed |-> FALSE, failed_deps |-> <<>>, value |-> -1]

\* The outcome of one command: the store afterwards, the value returned, and
\* whether save_state() was called.
SdOutcome(st, resp, saved) == [st |-> st, resp |-> resp, saved |-> saved]

\* push-workflow, lines 357-363: the entry pushed.  A new entry has no
\* resume_phase key, which .get("resume_phase") reads as None.
new_entry(workflow_type) ==
    [workflow_type |-> workflow_type, current_phase |-> "init",
     suspended |-> FALSE, resume_phase |-> None]

\* A push that suspends the parent without recording where to resume.
suspend_top_unrecorded(stack) ==
    IF stack # <<>>
    THEN [stack EXCEPT ![Len(stack)].suspended = TRUE]
    ELSE stack

\* A push that records the phase to resume at and leaves the parent active.
suspend_top_unmarked(stack) ==
    IF stack # <<>>
    THEN [stack EXCEPT ![Len(stack)].resume_phase = stack[Len(stack)].current_phase]
    ELSE stack

\* push-workflow, lines 352-354: suspend the current top, if there is one.
suspend_top(stack) ==
    IF stack # <<>>
    THEN [stack EXCEPT ![Len(stack)].suspended = TRUE,
                       ![Len(stack)].resume_phase = stack[Len(stack)].current_phase]
    ELSE stack

\* push-workflow
push_workflow(st, session_id, workflow_type) ==
    LET stack == Get(st.workflow_stack, session_id, <<>>)
        pushed == Append(suspend_top(stack), new_entry(workflow_type))
    IN  SdOutcome([st EXCEPT !.workflow_stack = Put(@, session_id, pushed)],
                  [SdResp("ok", "") EXCEPT !.workflow_type = workflow_type,
                                           !.depth = Len(pushed)],
                  TRUE)

\* A pop that leaves the parent suspended.
resume_parent_forgotten(stack) == stack

\* pop-workflow, lines 393-394: resume the parent, if there is one.
resume_parent(stack) ==
    IF stack # <<>>
    THEN [stack EXCEPT ![Len(stack)].suspended = FALSE]
    ELSE stack

\* pop-workflow
pop_workflow(st, session_id) ==
    LET stack == Get(st.workflow_stack, session_id, <<>>)
    IN  IF stack = <<>>
        THEN SdOutcome(st, SdResp("error", "Stack empty"), FALSE)
        ELSE LET popped == stack[Len(stack)]
                 rest == resume_parent(SubSeq(stack, 1, Len(stack) - 1))
             IN  SdOutcome(
                    [st EXCEPT !.workflow_stack = Put(@, session_id, rest)],
                    [SdResp("ok", "") EXCEPT
                        !.popped = popped.workflow_type,
                        !.resumed_workflow =
                            IF rest # <<>> THEN rest[Len(rest)].workflow_type
                                           ELSE None,
                        !.resume_phase =
                            IF rest # <<>> THEN rest[Len(rest)].resume_phase
                                           ELSE None,
                        !.depth = Len(rest)],
                    TRUE)

\* clear-workflow-stack
clear_workflow_stack(st, session_id) ==
    SdOutcome([st EXCEPT !.workflow_stack = Del(@, session_id)],
              SdResp("ok", "Stack cleared"),
              TRUE)

\* A set-workflow-phase that relabels the suspended entries too.
set_workflow_phase_of_all(st, session_id, phase) ==
    LET stack == Get(st.workflow_stack, session_id, <<>>)
    IN  IF stack = <<>>
        THEN SdOutcome(st, SdResp("error", "No active workflow"), FALSE)
        ELSE SdOutcome(
                [st EXCEPT !.workflow_stack =
                    Put(@, session_id,
                        [i \in 1..Len(stack) |->
                            [stack[i] EXCEPT !.current_phase = phase]])],
                [SdResp("ok", "") EXCEPT !.phase = phase],
                TRUE)

\* set-workflow-phase
set_workflow_phase(st, session_id, phase) ==
    LET stack == Get(st.workflow_stack, session_id, <<>>)
    IN  IF stack = <<>>
        THEN SdOutcome(st, SdResp("error", "No active workflow"), FALSE)
        ELSE SdOutcome(
                [st EXCEPT !.workflow_stack =
                    Put(@, session_id,
                        [stack EXCEPT ![Len(stack)].current_phase = phase])],
                [SdResp("ok", "") EXCEPT !.phase = phase],
                TRUE)

\* The key "protocol:<session>:<workflow>:<name>" of a validation status.
protocol_key(session_id, workflow_type, name) == <<session_id, workflow_type, name>>

\* set-validation.  The entry's updated_at is a clock reading that no
\* command compares.
set_validation(st, session_id, workflow_type, name, status) ==
    SdOutcome([st EXCEPT !.protocol =
                    Put(@, protocol_key(session_id, workflow_type, name), status)],
              SdResp("ok", ""),
              TRUE)

\* check-validation-deps, line 262: the names between the commas of
\* <deps>, the empty ones dropped.
split_deps(pieces) == SelectSeq(pieces, LAMBDA d : d # "")

\* check-validation-deps, lines 268-277: the dependencies that are not
\* passed, each with its status, in the order given; one without an entry
\* is listed as pending.
sd_failed_deps(st, session_id, workflow_type, deps) ==
    LET status(dep) ==
            Get(st.protocol, protocol_key(session_id, workflow_type, dep), None)
        RECURSIVE from(_)
        from(i) ==
            IF i > Len(deps) THEN <<>>
            ELSE IF status(deps[i]) # "passed"
            THEN <<[name |-> deps[i],
                    status |-> IF status(deps[i]) = None THEN "pending"
                               ELSE status(deps[i])]>> \o from(i + 1)
            ELSE from(i + 1)
    IN  from(1)

\* check-validation-deps
check_validation_deps(st, session_id, workflow_type, name, pieces) ==
    LET deps == split_deps(pieces)
        unmet == sd_failed_deps(st, session_id, workflow_type, deps)
    IN  IF deps = <<>>
        THEN SdOutcome(st, [SdResp("ok", "No dependencies") EXCEPT
                                !.allowed = TRUE], FALSE)
        ELSE IF unmet # <<>>
        THEN SdOutcome(st, [SdResp("ok", "Dependencies not satisfied") EXCEPT
                                !.allowed = FALSE,
                                !.failed_deps = unmet], FALSE)
        ELSE SdOutcome(st, [SdResp("ok", "") EXCEPT !.allowed = TRUE], FALSE)

\* save_state run to its end: the temporary file has been renamed over
\* daemon-state.json.
save_state(st) == Written(st)

(***************************************************************************)
(* forge-state-daemon.py: process_command, one command per step            *)
(***************************************************************************)
SdReq(cmd, session_id, arg) == [cmd |-> cmd, session |-> session_id, arg |-> arg]

\* The phase label of the active workflow of a session, None without one.
active_phase(st, session_id) ==
    LET stack == Get(st.workflow_stack, session_id, <<>>)
    IN  IF stack # <<>> THEN stack[Len(stack)].current_phase ELSE None

\* process_command, lines 104-569: the commands of the workflow stack, and
\* the answer to a command it does not know.
process_command(st, req) ==
    CASE req.cmd = "push-workflow" -> push_workflow(st, req.session, req.arg)
      [] req.cmd = "pop-workflow" -> pop_workflow(st, req.session)
      [] req.cmd = "set-workflow-phase" ->
            set_workflow_phase(st, req.session, req.arg)
      [] OTHER -> SdOutcome(st, SdResp("error", "Unknown command"), FALSE)

\* What the client of a stack command saw: the command and, from the reply,
\* the status, the workflow type pushed or popped and what a pop says to
\* resume; with it, the phase label of the session's active workflow when
\* the command arrived and when it was answered.
Seen(req, out) ==
    [cmd |-> req.cmd, session |-> req.session, status |-> out.resp.status,
     workflow_type |-> IF req.cmd = "pop-workflow" THEN out.resp.popped
                                                   ELSE out.resp.workflow_type,
     resumed_workflow |-> out.resp.resumed_workflow,
     resume_phase |-> out.resp.resume_phase,
     phase_before |-> active_phase(sd_state, req.session),
     phase_after |-> active_phase(out.st, req.session)]

\* Apply a command's outcome: the store, the file when it saved, the reply.
SdHandle(req, out) ==
    /\ sd_request' = req
    /\ sd_state' = out.st
    /\ sd_response' = out.resp
    /\ sd_file' = IF out.saved THEN save_state(out.st) ELSE sd_file
    /\ UNCHANGED <<phase_vars, cli_vars, conc_vars, crash_vars, env_vars>>

\* What the clients of session s have seen, oldest first.
SeenBy(s) == SelectSeq(observed, LAMBDA e : e.session = s)

\* A command that changes the depth of a stack is noted by its client.  The
\* clients stop after MaxObserved such commands, of which at most
\* MaxObservedElsewhere are outside session "s1".
SdHandleSeen(req, out) ==
    /\ Len(observed) < MaxObserved
    /\ req.session # "s1" => Len(observed) - Len(SeenBy("s1")) < MaxObservedElsewhere
    /\ SdHandle(req, out)
    /\ observed' = Append(observed, Seen(req, out))

PushWorkflow ==
    \E s \in Sessions, w \in WorkflowTypes :
        /\ Len(Get(sd_state.workflow_stack, s, <<>>)) < MaxDepth
        /\ SdHandleSeen(SdReq("push-workflow", s, w), push_workflow(sd_state, s, w))

PopWorkflow ==
    \E s \in Sessions :
        SdHandleSeen(SdReq("pop-workflow", s, ""), pop_workflow(sd_state, s))

ClearWorkflowStack ==
    \E s \in Sessions :
        SdHandleSeen(SdReq("clear-workflow-stack", s, ""),
                     clear_workflow_stack(sd_state, s))

SetWorkflowPhase ==
    \E s \in Sessions, p \in StackPhases :
        /\ SdHandle(SdReq("set-workflow-phase", s, p),
                    set_workflow_phase(sd_state, s, p))
        /\ UNCHANGED observed

\* The validations, statuses and <deps> arguments the hooks send for the
\* skill_creation workflow of session "s1".
ProtocolNames == {"validate_all", "form_selection_audit"}

ProtocolStatuses == {"pending", "executed", "passed", "failed", "claimed"}

DepsInputs ==
    {<<>>, <<"">>, <<"validate_all">>, <<"form_selection_audit", "", "validate_all">>}

SetValidation ==
    \E name \in ProtocolNames, status \in ProtocolStatuses :
        /\ SdHandle(SdReq("set-validation", "s1", <<name, status>>),
                    set_validation(sd_state, "s1", "skill_creation", name, status))
        /\ UNCHANGED observed

CheckValidationDeps ==
    \E pieces \in DepsInputs :
        /\ SdHandle(SdReq("check-validation-deps", "s1", pieces),
                    check_validation_deps(sd_state, "s1", "skill_creation",
                                          "functional_test", pieces))
        /\ UNCHANGED observed

\* The state daemon started on a workspace without daemon-state.json.
StackInit ==
    /\ sd_state = EmptyStore
    /\ sd_file = [content |-> "absent", doc |-> EmptyStore]
    /\ sd_request = SdReq("", "", "")
    /\ sd_response = SdResp("ok", "")
    /\ observed = <<>>

StackNext ==
    \/ PushWorkflow
    \/ PopWorkflow
    \/ ClearWorkflowStack
    \/ SetWorkflowPhase

\* The validation commands of the state daemon, one at a time.
ProtocolNext ==
    \/ SetValidation
    \/ CheckValidationDeps

(***************************************************************************)
(* forge-daemon.py: ForgeDaemon.run starts one handle_client thread per    *)
(* connection, and ForgeState takes no lock.  A checkpoint is followed     *)
(* here statement by statement: each step is one read or write of          *)
(* self.state by one thread.                                               *)
(***************************************************************************)
\* The handle_client threads that may be alive at once.
Threads == {"t1", "t2"}

\* A thread that serves no connection.
IdleWorker ==
    [pc |-> "idle", agent |-> "", current_phase |-> -1,
     response |-> Resp(TRUE, "")]

AllIdle == \A t \in Threads : worker[t].pc = "idle"

\* One statement of thread t: its locals, the document, the file.
WorkerStep(t, w, st, f) ==
    /\ running
    /\ worker' = [worker EXCEPT ![t] = w]
    /\ state' = st
    /\ state_file' = f
    /\ UNCHANGED <<request, response, running, round_start, sd_worker>>
    /\ UNCHANGED <<cli_vars, stack_vars, crash_vars, env_vars>>

\* Thread t ends with the reply resp.
Reply(t, resp) == [worker[t] EXCEPT !.pc = "done", !.response = resp]

\* Thread t goes on to the statement at pc.
Goto(t, pc) == [worker[t] EXCEPT !.pc = pc]

\* run, lines 393-396: a client connects and sends checkpoint; the document
\* is noted when the first of the concurrent clients connects.
Connect(t) ==
    \E a \in Agents :
        /\ running
        /\ worker[t].pc = "idle"
        /\ Len(state.checkpoints) < MaxConcCheckpoints
        /\ worker' = [worker EXCEPT ![t] = [IdleWorker EXCEPT !.pc = "l206",
                                                              !.agent = a]]
        /\ round_start' = IF AllIdle THEN state ELSE round_start
        /\ UNCHANGED <<phase_vars, sd_worker>>
        /\ UNCHANGED <<cli_vars, stack_vars, crash_vars, env_vars>>

\* checkpoint, line 206
TestActive(t) ==
    /\ worker[t].pc = "l206"
    /\ WorkerStep(t,
            IF ~state.forge_active
            THEN Reply(t, Resp(FALSE, "Forge not active"))
            ELSE Goto(t, "l209"),
            state, state_file)

\* checkpoint, lines 209-217: current_phase is read once, into a local.
ReadPhase(t) ==
    /\ worker[t].pc = "l209"
    /\ WorkerStep(t,
            IF ~agent_matches(state, worker[t].agent)
            THEN [Reply(t, Resp(FALSE, "Agent does not match expected"))
                    EXCEPT !.current_phase = state.phase]
            ELSE [Goto(t, "l220") EXCEPT !.current_phase = state.phase],
            state, state_file)

\* checkpoint, line 220
TestConfirmed(t) ==
    /\ worker[t].pc = "l220"
    /\ WorkerStep(t,
            IF worker[t].current_phase = 4 /\ ~state.confirmed
            THEN Reply(t, Resp(FALSE, "Execute phase requires user confirmation first"))
            ELSE Goto(t, "l227"),
            state, state_file)

\* checkpoint, line 227
TestReconfirmation(t) ==
    /\ worker[t].pc = "l227"
    /\ WorkerStep(t,
            IF worker[t].current_phase = 4 /\ state.requires_reconfirmation
            THEN Reply(t, Resp(FALSE, "Design was modified - reconfirmation required"))
            ELSE Goto(t, "l239"),
            state, state_file)

\* checkpoint, lines 234-239
RecordCheckpoint(t) ==
    /\ worker[t].pc = "l239"
    /\ WorkerStep(t, Goto(t, "l242"),
            [state EXCEPT !.checkpoints =
                Append(@, [phase |-> worker[t].current_phase,
                           agent |-> worker[t].agent])],
            state_file)

\* checkpoint, lines 242-243 and 256: the phase written is the local plus one.
WritePhase(t) ==
    /\ worker[t].pc = "l242"
    /\ WorkerStep(t, Goto(t, "save"),
            IF worker[t].current_phase < MAX_PHASE
            THEN [state EXCEPT !.phase = worker[t].current_phase + 1]
            ELSE [state EXCEPT !.forge_active = FALSE],
            state_file)

\* checkpoint, lines 245-253 and 257-263: _save, then the reply.
SaveAndReturn(t) ==
    /\ worker[t].pc = "save"
    /\ WorkerStep(t,
            Reply(t, IF worker[t].current_phase < MAX_PHASE
                     THEN [Resp(TRUE, "") EXCEPT
                            !.advanced = TRUE,
                            !.phase = worker[t].current_phase + 1]
                     ELSE [Resp(TRUE, "") EXCEPT !.completed = TRUE]),
            state, _save(state))

\* handle_client, lines 345-352: the replies are sent and the threads end.
Disconnect ==
    /\ \A t \in Threads : worker[t].pc \in {"idle", "done"}
    /\ \E t \in Threads : worker[t].pc = "done"
    /\ worker' = [t \in Threads |-> IdleWorker]
    /\ round_start' = InitState
    /\ UNCHANGED <<phase_vars, sd_worker>>
    /\ UNCHANGED <<cli_vars, stack_vars, crash_vars, env_vars>>

\* A client that is alone with the daemon: no other connection is open.
Alone(command) == AllIdle /\ command

ConcInit ==
    /\ worker = [t \in Threads |-> IdleWorker]
    /\ round_start = InitState

ConcNext ==
    \/ Alone(Activate)
    \/ Alone(Confirm)
    \/ Alone(SetPhase)
    \/ \E t \in Threads : Connect(t)
    \/ \E t \in Threads : TestActive(t)
    \/ \E t \in Threads : ReadPhase(t)
    \/ \E t \in Threads : TestConfirmed(t)
    \/ \E t \in Threads : TestReconfirmation(t)
    \/ \E t \in Threads : RecordCheckpoint(t)
    \/ \E t \in Threads : WritePhase(t)
    \/ \E t \in Threads : SaveAndReturn(t)
    \/ Disconnect

(***************************************************************************)
(* forge-state-daemon.py: handle_client threads.  Every block under        *)
(* `with self.lock` is one step; what a command does between two such      *)
(* blocks, and save_state after them, are steps of their own.              *)
(***************************************************************************)
\* The session and the step number the concurrent clients use.
ConcSessions == {"s1"}

StepInputs == {2}

IdleSdWorker ==
    [pc |-> "idle", cmd |-> "", session |-> "", arg |-> "", step |-> -1,
     ref |-> "none", workflow_type |-> None, response |-> SdResp("ok", ""),
     handle |-> "none", base |-> -1, value |-> -1]

\* The threads that have been handed cmd and have not yet changed the store.
Pending(cmd, pcs) ==
    {t \in Threads : sd_worker[t].cmd = cmd /\ sd_worker[t].pc \in pcs}

\* One statement of thread t: its locals, the store, the file.
SdWorkerStep(t, w, st, f) ==
    /\ sd_worker' = [sd_worker EXCEPT ![t] = w]
    /\ sd_state' = st
    /\ sd_file' = f
    /\ UNCHANGED <<sd_request, sd_response, observed, worker, round_start>>
    /\ UNCHANGED <<phase_vars, cli_vars, crash_vars, env_vars>>

SdReply(t, resp) == [sd_worker[t] EXCEPT !.pc = "done", !.response = resp]

SdGoto(t, pc) == [sd_worker[t] EXCEPT !.pc = pc]

\* start_server, lines 617-622: a client connects and sends a command.
SdConnect(t) ==
    /\ sd_worker[t].pc = "idle"
    /\ \E s \in ConcSessions :
        \/ \E w \in WorkflowTypes :
            /\ Len(Get(sd_state.workflow_stack, s, <<>>))
                 + Cardinality(Pending("push-workflow", {"locked"})) < MaxDepth
            /\ SdWorkerStep(t, [IdleSdWorker EXCEPT !.pc = "locked",
                                    !.cmd = "push-workflow",
                                    !.session = s, !.arg = w],
                            sd_state, sd_file)
        \/ SdWorkerStep(t, [IdleSdWorker EXCEPT !.pc = "locked",
                                !.cmd = "pop-workflow", !.session = s],
                        sd_state, sd_file)
        \/ \E n \in StepInputs :
            SdWorkerStep(t, [IdleSdWorker EXCEPT !.pc = "get_stack",
                                !.cmd = "set-command-step",
                                !.session = s, !.step = n],
                         sd_state, sd_file)
        \/ /\ \A k \in DOMAIN sd_state.command_step :
                sd_state.command_step[k]
                  + Cardinality(Pending("advance-command-step",
                        {"get_stack", "test_stack", "read_top", "write_step"}))
                  < MaxStep
           /\ SdWorkerStep(t, [IdleSdWorker EXCEPT !.pc = "get_stack",
                                !.cmd = "advance-command-step", !.session = s],
                           sd_state, sd_file)

\* push-workflow lines 348-365 and pop-workflow lines 382-398: the whole
\* change of the stack is made under the lock.
SdLocked(t) ==
    /\ sd_worker[t].pc = "locked"
    /\ LET w == sd_worker[t]
           out == IF w.cmd = "push-workflow"
                  THEN push_workflow(sd_state, w.session, w.arg)
                  ELSE pop_workflow(sd_state, w.session)
       IN  SdWorkerStep(t,
                [w EXCEPT !.pc = IF out.saved THEN "save" ELSE "done",
                          !.response = out.resp],
                out.st, sd_file)

\* set-command-step lines 520-521, advance-command-step lines 543-544:
\* state.get(stack_key, []) hands out the list the store holds, or a new
\* empty list when the key is missing.
SdGetStack(t) ==
    /\ sd_worker[t].pc = "get_stack"
    /\ SdWorkerStep(t,
            [SdGoto(t, "test_stack") EXCEPT !.ref =
                IF sd_worker[t].session \in DOMAIN sd_state.workflow_stack
                THEN "live" ELSE "fresh"],
            sd_state, sd_file)

\* The list behind the local `stack` of thread t, as it is now.
stack_of(t) ==
    IF sd_worker[t].ref = "live"
    THEN Get(sd_state.workflow_stack, sd_worker[t].session, <<>>)
    ELSE <<>>

\* lines 523-524 and 546-547, outside the lock
SdTestStack(t) ==
    /\ sd_worker[t].pc = "test_stack"
    /\ SdWorkerStep(t,
            IF stack_of(t) = <<>>
            THEN SdReply(t, SdResp("error", "No active workflow"))
            ELSE SdGoto(t, "read_top"),
            sd_state, sd_file)

\* lines 526-527 and 549-550, outside the lock: stack[-1] of a list that was
\* emptied meanwhile raises IndexError, which line 568 turns into a reply.
SdReadTop(t) ==
    /\ sd_worker[t].pc = "read_top"
    /\ SdWorkerStep(t,
            IF stack_of(t) = <<>>
            THEN SdReply(t, SdResp("error", "list index out of range"))
            ELSE [SdGoto(t, "write_step") EXCEPT !.workflow_type =
                    stack_of(t)[Len(stack_of(t))].workflow_type],
            sd_state, sd_file)

\* set-command-step lines 529-530, advance-command-step lines 552-555, under
\* the lock again.
SdWriteStep(t) ==
    /\ sd_worker[t].pc = "write_step"
    /\ LET w == sd_worker[t]
           step_key == <<w.session, w.workflow_type>>
           current == Get(sd_state.command_step, step_key, 1)
           new_step == IF w.cmd = "set-command-step" THEN w.step ELSE current + 1
       IN  SdWorkerStep(t,
                [w EXCEPT !.pc = "save",
                          !.response =
                            [SdResp("ok", "") EXCEPT
                                !.step = new_step,
                                !.previous_step =
                                    IF w.cmd = "set-command-step" THEN -1 ELSE current,
                                !.workflow_type = w.workflow_type]],
                [sd_state EXCEPT !.command_step = Put(@, step_key, new_step)],
                sd_file)

\* save_state, called after the lock was released: it writes the store as
\* it is by then.
SdSave(t) ==
    /\ sd_worker[t].pc = "save"
    /\ SdWorkerStep(t, SdGoto(t, "done"), sd_state, save_state(sd_state))

\* handle_client, lines 583-592
SdDisconnect(t) ==
    /\ sd_worker[t].pc = "done"
    /\ SdWorkerStep(t, IdleSdWorker, sd_state, sd_file)

SdConcInit == sd_worker = [t \in Threads |-> IdleSdWorker]

SdConcNext ==
    \/ \E t \in Threads : SdConnect(t)
    \/ \E t \in Threads : SdLocked(t)
    \/ \E t \in Threads : SdGetStack(t)
    \/ \E t \in Threads : SdTestStack(t)
    \/ \E t \in Threads : SdReadTop(t)
    \/ \E t \in Threads : SdWriteStep(t)
    \/ \E t \in Threads : SdSave(t)
    \/ \E t \in Threads : SdDisconnect(t)

(***************************************************************************)
(* Saving, system call by system call.  open(path, 'w') truncates the      *)
(* file; json.dump fills a buffer that reaches the disk in part when it    *)
(* overflows and in full when the file is closed.  A process can be        *)
(* killed between any two of these.                                        *)
(***************************************************************************)
\* The file right after open(path, 'w'), and after a part of the document
\* st has reached the disk.
Opened(st) == [content |-> "empty", doc |-> st]

Flushed(st) == [content |-> "partial", doc |-> st]

\* No save is on its way.
NoSave ==
    [pd |-> [pc |-> "idle", resp |-> Resp(TRUE, "")],
     cli |-> [pc |-> "idle", exit |-> 0],
     sd |-> [pc |-> "idle", resp |-> SdResp("ok", "")]]

\* The agents and workflow types sent while the saves are watched.
CrashAgents == {"forge:input-agent", "forge:analysis-agent"}

CrashWorkflows == {"quick_fix", "analyze_only"}

\* forge-daemon.py: a command changes the document and, when it saves,
\* reaches ForgeState._save line 119, the open.
PdCommand(req, out) ==
    /\ running
    /\ inflight.pd.pc = "idle"
    /\ request' = req
    /\ state' = out.st
    /\ IF out.saved
       THEN /\ state_file' = Opened(out.st)
            /\ inflight' = [inflight EXCEPT !.pd =
                    [pc |-> "opened", resp |-> out.resp]]
            /\ UNCHANGED response
       ELSE /\ response' = out.resp
            /\ UNCHANGED <<state_file, inflight>>
    /\ UNCHANGED <<running, wf_disk, sd_tmp>>
    /\ UNCHANGED <<cli_vars, stack_vars, conc_vars, env_vars>>

PdActivate == PdCommand(Req("activate"), activate(state))

PdDeactivate == PdCommand(Req("deactivate"), deactivate(state))

PdCheckpoint ==
    \E a \in CrashAgents :
        /\ Len(state.checkpoints) < MaxCheckpoints
        /\ PdCommand([Req("checkpoint") EXCEPT !.agent = a], checkpoint(state, a))

\* _save line 120: json.dump overflows the buffer.
PdFlush ==
    /\ running
    /\ inflight.pd.pc = "opened"
    /\ state_file' = Flushed(state)
    /\ UNCHANGED <<state, request, response, running>>
    /\ UNCHANGED <<cli_vars, stack_vars, conc_vars, crash_vars, env_vars>>

\* _save: the with block ends, the file is closed, the method returns.
PdClose ==
    /\ running
    /\ inflight.pd.pc = "opened"
    /\ state_file' = Written(state)
    /\ response' = inflight.pd.resp
    /\ inflight' = [inflight EXCEPT !.pd = NoSave.pd]
    /\ UNCHANGED <<state, request, running, wf_disk, sd_tmp>>
    /\ UNCHANGED <<cli_vars, stack_vars, conc_vars, env_vars>>

\* forge-state.py load_state: a file that does not parse reads as None.
load_state == IF wf_disk = "complete" THEN wf_file ELSE NoWorkflow

\* forge-state.py init: cmd_init up to save_state line 278, the open.  It
\* saves exactly when it does not exit early.
CliInitOpen ==
    \E t \in CrashWorkflows :
        LET result == cmd_init(load_state, t)
        IN  /\ inflight.cli.pc = "idle"
            /\ result.exit = 0
            /\ wf_file' = result.doc
            /\ wf_disk' = "empty"
            /\ cli' = Invocation("init", t, "", FALSE)
            /\ inflight' = [inflight EXCEPT !.cli =
                    [pc |-> "opened", exit |-> result.exit]]
            /\ UNCHANGED sd_tmp
            /\ UNCHANGED <<phase_vars, stack_vars, conc_vars, env_vars>>

\* save_state line 279: json.dump overflows the buffer.
CliFlush ==
    /\ inflight.cli.pc = "opened"
    /\ wf_disk' = "partial"
    /\ UNCHANGED <<wf_file, cli, inflight, sd_tmp>>
    /\ UNCHANGED <<phase_vars, stack_vars, conc_vars, env_vars>>

\* save_state: the file is closed; the process goes on to exit.
CliClose ==
    /\ inflight.cli.pc = "opened"
    /\ wf_disk' = "complete"
    /\ cli' = [cli EXCEPT !.exit = inflight.cli.exit]
    /\ inflight' = [inflight EXCEPT !.cli = NoSave.cli]
    /\ UNCHANGED <<wf_file, sd_tmp>>
    /\ UNCHANGED <<phase_vars, stack_vars, conc_vars, env_vars>>

\* The forge-state.py process is killed inside save_state.
CliKill ==
    /\ inflight.cli.pc = "opened"
    /\ inflight' = [inflight EXCEPT !.cli = [NoSave.cli EXCEPT !.pc = "killed"]]
    /\ UNCHANGED <<wf_file, wf_disk, cli, sd_tmp>>
    /\ UNCHANGED <<phase_vars, stack_vars, conc_vars, env_vars>>

\* forge-state-daemon.py: a stack command changes the store and reaches
\* save_state line 97, the open of daemon-state.tmp.
SdCommand(req, out) ==
    /\ inflight.sd.pc = "idle"
    /\ sd_request' = req
    /\ sd_state' = out.st
    /\ IF out.saved
       THEN /\ sd_tmp' = Opened(out.st)
            /\ inflight' = [inflight EXCEPT !.sd =
                    [pc |-> "opened", resp |-> out.resp]]
            /\ UNCHANGED sd_response
       ELSE /\ sd_response' = out.resp
            /\ UNCHANGED <<sd_tmp, inflight>>
    /\ UNCHANGED <<sd_file, observed, wf_disk>>
    /\ UNCHANGED <<phase_vars, cli_vars, conc_vars, env_vars>>

SdPush ==
    /\ Len(Get(sd_state.workflow_stack, "s1", <<>>)) < MaxDepth
    /\ SdCommand(SdReq("push-workflow", "s1", "quick_fix"),
                 push_workflow(sd_state, "s1", "quick_fix"))

SdPop == SdCommand(SdReq("pop-workflow", "s1", ""), pop_workflow(sd_state, "s1"))

\* save_state lines 98-101: json.dump overflows the buffer.
SdFlush ==
    /\ inflight.sd.pc = "opened"
    /\ sd_tmp' = Flushed(sd_state)
    /\ UNCHANGED <<inflight, wf_disk>>
    /\ UNCHANGED <<phase_vars, cli_vars, stack_vars, conc_vars, env_vars>>

\* save_state: the with block ends and daemon-state.tmp is closed.
SdClose ==
    /\ inflight.sd.pc = "opened"
    /\ sd_tmp' = Written(sd_state)
    /\ inflight' = [inflight EXCEPT !.sd.pc = "closed"]
    /\ UNCHANGED wf_disk
    /\ UNCHANGED <<phase_vars, cli_vars, stack_vars, conc_vars, env_vars>>

\* save_state line 102: the rename; the command returns.
SdRename ==
    /\ inflight.sd.pc = "closed"
    /\ sd_file' = sd_tmp
    /\ sd_tmp' = [content |-> "absent", doc |-> EmptyStore]
    /\ sd_response' = inflight.sd.resp
    /\ inflight' = [inflight EXCEPT !.sd = NoSave.sd]
    /\ UNCHANGED <<sd_state, sd_request, observed, wf_disk>>
    /\ UNCHANGED <<phase_vars, cli_vars, conc_vars, env_vars>>

\* The state daemon process is killed.
SdKill ==
    /\ inflight.sd.pc # "killed"
    /\ inflight' = [inflight EXCEPT !.sd.pc = "killed"]
    /\ UNCHANGED <<wf_disk, sd_tmp>>
    /\ UNCHANGED <<phase_vars, cli_vars, stack_vars, conc_vars, env_vars>>

CrashInit ==
    /\ inflight = NoSave
    /\ wf_disk = "complete"
    /\ sd_tmp = [content |-> "absent", doc |-> EmptyStore]

CrashNext ==
    \/ PdActivate
    \/ PdDeactivate
    \/ PdCheckpoint
    \/ PdFlush
    \/ PdClose
    \/ Kill
    \/ CliInitOpen
    \/ CliFlush
    \/ CliClose
    \/ CliKill
    \/ SdPush
    \/ SdPop
    \/ SdFlush
    \/ SdClose
    \/ SdRename
    \/ SdKill

(***************************************************************************)
(* forge-state-daemon.py: K clients send inc for one key, or               *)
(* advance-command-step for one active workflow, at the same time.  The    *)
(* increment is made under the lock; save_state runs after the lock was    *)
(* released, and is followed here system call by system call: every        *)
(* thread opens the same daemon-state.tmp, writes it and renames it.       *)
(***************************************************************************)
\* The counters stop here.
MaxCount == 3

\* The key the clients increment.
IncKey == "hook_calls"

IncCommands == {"inc", "advance-command-step"}

\* The counter a command of session s counts on, as the store st has it:
\* state.get(key, 0) for inc, state.get(step_key, 1) for the command step of
\* the active workflow.
counted(st, cmd, s) ==
    IF cmd = "inc"
    THEN Get(st.counter, IncKey, 0)
    ELSE LET stack == Get(st.workflow_stack, s, <<>>)
         IN  IF stack = <<>> THEN 1
             ELSE Get(st.command_step, <<s, stack[Len(stack)].workflow_type>>, 1)

\* The threads that serve a connection.
Busy == {t \in Threads : sd_worker[t].pc # "idle"}

\* One statement of thread t that touches neither file.
SdIncStep(t, w, st) ==
    /\ sd_worker' = [sd_worker EXCEPT ![t] = w]
    /\ sd_state' = st
    /\ UNCHANGED <<sd_file, sd_request, sd_response, observed, worker, round_start>>
    /\ UNCHANGED <<phase_vars, cli_vars, crash_vars, env_vars>>

\* A client alone with the daemon pushes the workflow the steps are counted
\* for.
SdIncPush(t) ==
    /\ Busy = {}
    /\ Get(sd_state.workflow_stack, "s1", <<>>) = <<>>
    /\ SdIncStep(t, [IdleSdWorker EXCEPT !.pc = "locked", !.cmd = "push-workflow",
                        !.session = "s1", !.arg = "skill_creation"],
                 sd_state)

\* start_server, lines 617-622: a client connects and sends the command the
\* clients already connected have sent.  base is the counter when the first
\* of them connected.
SdIncConnect(t) ==
    \E cmd \in IncCommands :
        /\ sd_worker[t].pc = "idle"
        /\ \A u \in Busy : sd_worker[u].cmd = cmd
        /\ cmd = "advance-command-step" =>
                Get(sd_state.workflow_stack, "s1", <<>>) # <<>>
        /\ counted(sd_state, cmd, "s1") + Cardinality(Busy) < MaxCount
        /\ SdIncStep(t, [IdleSdWorker EXCEPT
                            !.pc = IF cmd = "inc" THEN "inc" ELSE "get_stack",
                            !.cmd = cmd, !.session = "s1",
                            !.base = IF Busy = {}
                                     THEN counted(sd_state, cmd, "s1")
                                     ELSE sd_worker[CHOOSE u \in Busy : TRUE].base],
                     sd_state)

\* inc, lines 134-139, under the lock.
inc(st, key) ==
    [st EXCEPT !.counter = Put(@, key, Get(st.counter, key, 0) + 1)]

SdInc(t) ==
    /\ sd_worker[t].pc = "inc"
    /\ LET st == inc(sd_state, IncKey)
       IN  SdIncStep(t, [sd_worker[t] EXCEPT
                            !.pc = "save",
                            !.value = st.counter[IncKey],
                            !.response = [SdResp("ok", "") EXCEPT
                                            !.value = st.counter[IncKey]]],
                     st)

\* save_state, line 97: open(tmp_file, 'w') creates daemon-state.tmp or
\* truncates the one another thread is writing.
SdSaveOpen(t) ==
    /\ sd_worker[t].pc = "save"
    /\ sd_worker' = [sd_worker EXCEPT ![t].pc = "save_write",
                                      ![t].handle = "tmp"]
    /\ sd_tmp' = Opened(sd_state)
    /\ UNCHANGED <<sd_state, sd_file, sd_request, sd_response, observed>>
    /\ UNCHANGED <<worker, round_start, inflight, wf_disk>>
    /\ UNCHANGED <<phase_vars, cli_vars, env_vars>>

\* save_state, lines 98-101: json.dump and the end of the with block.  The
\* document goes to the file the thread opened, wherever a rename has moved
\* it since.
SdSaveWrite(t) ==
    /\ sd_worker[t].pc = "save_write"
    /\ sd_worker' = [sd_worker EXCEPT ![t].pc = "save_rename"]
    /\ sd_tmp' = IF sd_worker[t].handle = "tmp" THEN Written(sd_state) ELSE sd_tmp
    /\ sd_file' = IF sd_worker[t].handle = "file" THEN Written(sd_state)
                                                  ELSE sd_file
    /\ UNCHANGED <<sd_state, sd_request, sd_response, observed>>
    /\ UNCHANGED <<worker, round_start, inflight, wf_disk>>
    /\ UNCHANGED <<phase_vars, cli_vars, env_vars>>

\* Where the file a thread holds open is after daemon-state.tmp was renamed
\* over daemon-state.json.
renamed(handle) ==
    CASE handle = "tmp" -> "file"
      [] handle = "file" -> "unlinked"
      [] OTHER -> handle

\* save_state, line 102: tmp_file.rename(STATE_FILE).  Without a
\* daemon-state.tmp it raises FileNotFoundError, which line 568 turns into
\* the reply.
SdSaveRename(t) ==
    /\ sd_worker[t].pc = "save_rename"
    /\ IF sd_tmp.content = "absent"
       THEN /\ sd_worker' = [sd_worker EXCEPT
                                ![t].pc = "done", ![t].handle = "none",
                                ![t].response = SdResp("error", "No such file or directory")]
            /\ UNCHANGED <<sd_file, sd_tmp>>
       ELSE /\ sd_worker' = [u \in Threads |->
                                IF u = t
                                THEN [sd_worker[u] EXCEPT !.pc = "done",
                                                          !.handle = "none"]
                                ELSE [sd_worker[u] EXCEPT
                                        !.handle = renamed(sd_worker[u].handle)]]
            /\ sd_file' = sd_tmp
            /\ sd_tmp' = [content |-> "absent", doc |-> EmptyStore]
    /\ UNCHANGED <<sd_state, sd_request, sd_response, observed>>
    /\ UNCHANGED <<worker, round_start, inflight, wf_disk>>
    /\ UNCHANGED <<phase_vars, cli_vars, env_vars>>

\* handle_client, lines 583-592: the replies are sent and the threads end.
SdIncDisconnect ==
    /\ Busy # {}
    /\ \A t \in Busy : sd_worker[t].pc = "done"
    /\ sd_worker' = [t \in Threads |-> IdleSdWorker]
    /\ UNCHANGED <<sd_state, sd_file, sd_request, sd_response, observed>>
    /\ UNCHANGED <<worker, round_start>>
    /\ UNCHANGED <<phase_vars, cli_vars, crash_vars, env_vars>>

SdIncNext ==
    \/ \E t \in Threads : SdIncPush(t)
    \/ \E t \in Threads : SdIncConnect(t)
    \/ \E t \in Threads : SdLocked(t)
    \/ \E t \in Threads : SdInc(t)
    \/ \E t \in Threads : SdGetStack(t)
    \/ \E t \in Threads : SdTestStack(t)
    \/ \E t \in Threads : SdReadTop(t)
    \/ \E t \in Threads : SdWriteStep(t)
    \/ \E t \in Threads : SdSaveOpen(t)
    \/ \E t \in Threads : SdSaveWrite(t)
    \/ \E t \in Threads : SdSaveRename(t)
    \/ SdIncDisconnect

(***************************************************************************)
(* forge-state-daemon.py: the session-scoped commands of two sessions and  *)
(* clear-session.  clear-session tests `session_id in k` on the key as it  *)
(* is spelled in self.state, so the keys are spelled out character by      *)
(* character here.                                                         *)
(***************************************************************************)
\* The session ids of the clients: one is the beginning of the other.
IsoSessions == {"s1", "s12"}

\* The stacks stop at this depth and the command steps at this number.
MaxIsoDepth == 1

MaxIsoStep == 2

\* The characters of the names used in keys.
Spell(name) ==
    CASE name = "s1" -> <<"s", "1">>
      [] name = "s12" -> <<"s", "1", "2">>
      [] name = "skill_creation" -> <<"s", "k", "i", "l", "l", "_", "c", "r", "e", "a", "t", "i", "o", "n">>
      [] name = "validate_all" -> <<"v", "a", "l", "i", "d", "a", "t", "e", "_", "a", "l", "l">>
      [] name = "validation_passed" -> <<"v", "a", "l", "i", "d", "a", "t", "i", "o", "n", "_", "p", "a", "s", "s", "e", "d">>
      [] name = "hook_calls" -> <<"h", "o", "o", "k", "_", "c", "a", "l", "l", "s">>
      [] name = "workflow_stack:" -> <<"w", "o", "r", "k", "f", "l", "o", "w", "_", "s", "t", "a", "c", "k", ":">>
      [] name = "command_step:" -> <<"c", "o", "m", "m", "a", "n", "d", "_", "s", "t", "e", "p", ":">>
      [] name = "protocol:" -> <<"p", "r", "o", "t", "o", "c", "o", "l", ":">>
      [] name = "gate:" -> <<"g", "a", "t", "e", ":">>
      [] name = ":" -> <<":">>

\* Python's `sub in text` on strings.
Contains(text, sub) ==
    \E i \in 0..(Len(text) - Len(sub)) :
        \A j \in 1..Len(sub) : text[i + j] = sub[j]

\* The keys of self.state as they are spelled: f"workflow_stack:{session_id}"
\* (line 346), f"command_step:{session_id}:{workflow_type}" (line 527),
\* f"protocol:{session_id}:{workflow_type}:{name}" (line 236),
\* f"gate:{session_id}:{gate_name}" (line 292).
stack_key_text(k) == Spell("workflow_stack:") \o Spell(k)

step_key_text(k) == Spell("command_step:") \o Spell(k[1]) \o Spell(":") \o Spell(k[2])

protocol_key_text(k) ==
    Spell("protocol:") \o Spell(k[1]) \o Spell(":") \o Spell(k[2])
        \o Spell(":") \o Spell(k[3])

gate_key_text(k) == Spell("gate:") \o Spell(k[1]) \o Spell(":") \o Spell(k[2])

\* d without the keys k whose spelling satisfies `session_id in k`.
Without(d, session_id, text(_)) ==
    [k \in {x \in DOMAIN d : ~Contains(text(x), Spell(session_id))} |-> d[k]]

\* clear-session, lines 217-225
clear_session(st, session_id) ==
    SdOutcome([workflow_stack |-> Without(st.workflow_stack, session_id, stack_key_text),
               command_step |-> Without(st.command_step, session_id, step_key_text),
               protocol |-> Without(st.protocol, session_id, protocol_key_text),
               gate |-> Without(st.gate, session_id, gate_key_text),
               counter |-> Without(st.counter, session_id, Spell)],
              SdResp("ok", ""),
              TRUE)

\* set-gate, lines 287-300: value.lower() == "true"
set_gate(st, session_id, gate_name, value) ==
    SdOutcome([st EXCEPT !.gate = Put(@, <<session_id, gate_name>>,
                                      value \in {"true", "True", "TRUE"})],
              SdResp("ok", ""),
              TRUE)

\* set-command-step, lines 507-533, one command at a time.
set_command_step(st, session_id, step) ==
    LET stack == Get(st.workflow_stack, session_id, <<>>)
    IN  IF stack = <<>>
        THEN SdOutcome(st, SdResp("error", "No active workflow"), FALSE)
        ELSE LET workflow_type == stack[Len(stack)].workflow_type
             IN  SdOutcome([st EXCEPT !.command_step =
                                Put(@, <<session_id, workflow_type>>, step)],
                           [SdResp("ok", "") EXCEPT !.step = step,
                                                    !.workflow_type = workflow_type],
                           TRUE)

\* advance-command-step, lines 535-563, one command at a time.
advance_command_step(st, session_id) ==
    LET stack == Get(st.workflow_stack, session_id, <<>>)
    IN  IF stack = <<>>
        THEN SdOutcome(st, SdResp("error", "No active workflow"), FALSE)
        ELSE LET workflow_type == stack[Len(stack)].workflow_type
                 current == Get(st.command_step, <<session_id, workflow_type>>, 1)
             IN  SdOutcome([st EXCEPT !.command_step =
                                Put(@, <<session_id, workflow_type>>, current + 1)],
                           [SdResp("ok", "") EXCEPT !.previous_step = current,
                                                    !.step = current + 1,
                                                    !.workflow_type = workflow_type],
                           TRUE)

\* One command of a client whose replies are not kept.
IsoHandle(req, out) == SdHandle(req, out) /\ UNCHANGED observed

IsoPush ==
    \E s \in IsoSessions :
        /\ Len(Get(sd_state.workflow_stack, s, <<>>)) < MaxIsoDepth
        /\ IsoHandle(SdReq("push-workflow", s, "skill_creation"),
                     push_workflow(sd_state, s, "skill_creation"))

IsoPop ==
    \E s \in IsoSessions :
        IsoHandle(SdReq("pop-workflow", s, ""), pop_workflow(sd_state, s))

IsoClearStack ==
    \E s \in IsoSessions :
        IsoHandle(SdReq("clear-workflow-stack", s, ""),
                  clear_workflow_stack(sd_state, s))

IsoSetPhase ==
    \E s \in IsoSessions :
        IsoHandle(SdReq("set-workflow-phase", s, "design"),
                  set_workflow_phase(sd_state, s, "design"))

IsoSetValidation ==
    \E s \in IsoSessions :
        IsoHandle(SdReq("set-validation", s, "validate_all"),
                  set_validation(sd_state, s, "skill_creation", "validate_all", "passed"))

IsoSetGate ==
    \E s \in IsoSessions :
        IsoHandle(SdReq("set-gate", s, "validation_passed"),
                  set_gate(sd_state, s, "validation_passed", "true"))

IsoSetStep ==
    \E s \in IsoSessions :
        IsoHandle(SdReq("set-command-step", s, "2"),
                  set_command_step(sd_state, s, MaxIsoStep))

IsoAdvanceStep ==
    \E s \in IsoSessions :
        /\ Get(sd_state.command_step, <<s, "skill_creation">>, 1) < MaxIsoStep
        /\ IsoHandle(SdReq("advance-command-step", s, ""),
                     advance_command_step(sd_state, s))

\* inc hook_calls: a key of no session.
IsoInc ==
    /\ Get(sd_state.counter, IncKey, 0) < 1
    /\ IsoHandle(SdReq("inc", "", IncKey),
                 SdOutcome(inc(sd_state, IncKey), SdResp("ok", ""), TRUE))

IsoClearSession ==
    \E s \in IsoSessions :
        IsoHandle(SdReq("clear-session", s, ""), clear_session(sd_state, s))

SessionNext ==
    \/ IsoPush
    \/ IsoPop
    \/ IsoClearStack
    \/ IsoSetPhase
    \/ IsoSetValidation
    \/ IsoSetGate
    \/ IsoSetStep
    \/ IsoAdvanceStep
    \/ IsoInc
    \/ IsoClearSession

(***************************************************************************)
(* forge-state-daemon.py: the command step of the active workflow, with    *)
(* workflows pushed by command-workflow-init-hook.py (a root workflow,      *)
(* followed by set-command-step 1) and by other clients (nested ones).      *)
(***************************************************************************)
\* get-command-step, lines 481-505
get_command_step(st, session_id) ==
    LET stack == Get(st.workflow_stack, session_id, <<>>)
    IN  IF stack = <<>>
        THEN SdOutcome(st, [SdResp("ok", "") EXCEPT !.step = 0], FALSE)
        ELSE LET workflow_type == stack[Len(stack)].workflow_type
             IN  SdOutcome(st,
                           [SdResp("ok", "") EXCEPT
                                !.step = Get(st.command_step,
                                             <<session_id, workflow_type>>, 1),
                                !.workflow_type = workflow_type],
                           FALSE)

\* command-workflow-init-hook.py handle_user_prompt_submit, lines 172-205:
\* with an empty stack the hook pushes the root workflow and sets its step
\* to 1; with a workflow on the stack it changes nothing.
root_workflow_started(st, session_id, target_workflow) ==
    IF Get(st.workflow_stack, session_id, <<>>) = <<>>
    THEN set_command_step(push_workflow(st, session_id, target_workflow).st,
                          session_id, 1)
    ELSE SdOutcome(st, SdResp("ok", ""), FALSE)

StepPush ==
    \E w \in WorkflowTypes :
        /\ Len(Get(sd_state.workflow_stack, "s1", <<>>)) < MaxDepth
        /\ IsoHandle(SdReq("push-workflow", "s1", w), push_workflow(sd_state, "s1", w))

StepPop == IsoHandle(SdReq("pop-workflow", "s1", ""), pop_workflow(sd_state, "s1"))

StepAdvance ==
    /\ \A k \in DOMAIN sd_state.command_step : sd_state.command_step[k] < MaxStep
    /\ IsoHandle(SdReq("advance-command-step", "s1", ""),
                 advance_command_step(sd_state, "s1"))

StepGet ==
    IsoHandle(SdReq("get-command-step", "s1", ""), get_command_step(sd_state, "s1"))

StepHookStart ==
    \E w \in WorkflowTypes :
        IsoHandle(SdReq("user-prompt", "s1", w), root_workflow_started(sd_state, "s1", w))

StepNext ==
    \/ StepPush
    \/ StepPop
    \/ StepAdvance
    \/ StepGet
    \/ StepHookStart

(***************************************************************************)
(* forge-state-daemon.py: K clients send check-sequence for one key at the *)
(* same time.  The step is read, tested and written under the lock;        *)
(* save_state runs after the lock was released, as it does for inc.        *)
(***************************************************************************)
\* The steps the clients ask for: 0 .. MaxSeq.
MaxSeq == 3

\* The composite key the clients check, and the store key made of it
\* (line 176).
SeqKey == "s1:wizard"

step_key_of(key) == "step:" \o key

\* check-sequence, lines 172-205, without save_state: the store afterwards,
\* the reply, and whether save_state is called.  The reply's step is
\* current_step.
check_sequence(st, key, required_step) ==
    LET current_step == Get(st.counter, step_key_of(key), 0)
    IN  IF required_step <= current_step + 1
        THEN SdOutcome(IF required_step > current_step
                       THEN [st EXCEPT !.counter = Put(@, step_key_of(key), required_step)]
                       ELSE st,
                       [SdResp("ok", "") EXCEPT
                            !.allowed = TRUE,
                            !.step = IF current_step >= required_step
                                     THEN current_step ELSE required_step],
                       TRUE)
        ELSE SdOutcome(st,
                       [SdResp("ok", "Cannot skip") EXCEPT
                            !.allowed = FALSE, !.step = current_step],
                       FALSE)

\* start_server, lines 617-622: a client connects and sends check-sequence.
SdSeqConnect(t) ==
    \E required_step \in 0..MaxSeq :
        /\ sd_worker[t].pc = "idle"
        /\ SdIncStep(t, [IdleSdWorker EXCEPT !.pc = "check",
                            !.cmd = "check-sequence", !.session = "s1",
                            !.step = required_step],
                     sd_state)

\* check-sequence, lines 178-188, under the lock; base is current_step.
SdCheckSequence(t) ==
    /\ sd_worker[t].pc = "check"
    /\ LET out == check_sequence(sd_state, SeqKey, sd_worker[t].step)
       IN  SdIncStep(t, [sd_worker[t] EXCEPT
                            !.pc = IF out.saved THEN "save" ELSE "done",
                            !.base = Get(sd_state.counter, step_key_of(SeqKey), 0),
                            !.response = out.resp],
                     out.st)

SdSeqNext ==
    \/ \E t \in Threads : SdSeqConnect(t)
    \/ \E t \in Threads : SdCheckSequence(t)
    \/ \E t \in Threads : SdSaveOpen(t)
    \/ \E t \in Threads : SdSaveWrite(t)
    \/ \E t \in Threads : SdSaveRename(t)
    \/ SdIncDisconnect

(***************************************************************************)
(* forge-daemon.py: ForgeDaemon.run, idle_checker and handle_client as     *)
(* threads of one process.  Nothing is locked: a step is one read or write *)
(* of what the threads share (self.running, self.last_activity, the        *)
(* document's forge_active, the server socket).                            *)
(***************************************************************************)
IDLE_TIMEOUT == 300

\* Time is watched in steps of Quantum seconds up to MaxClock; the clients
\* send their last command early enough for the idle timeout to be seen.
Quantum == 150

MaxClock == 750

\* The lines a client may send: a JSON object with one of these commands
\* ("no-such-command" is not one handle_command knows), or text that is not
\* JSON.
LifeCommands == {"activate", "deactivate", "shutdown", "no-such-command"}

Lines ==
    {[json |-> TRUE, cmd |-> c] : c \in LifeCommands}
        \cup {[json |-> FALSE, cmd |-> ""]}

NoHandler == [pc |-> "idle", line |-> [json |-> TRUE, cmd |-> ""]]

\* time.time() moves on; a connection is served in less than a Quantum.
Tick ==
    /\ clock + Quantum <= MaxClock
    /\ handler.pc = "idle"
    /\ clock' = clock + Quantum
    /\ UNCHANGED <<last_activity, listening, socket_file, main_pc, idle_pc, handler>>
    /\ UNCHANGED <<phase_vars, cli_vars, stack_vars, conc_vars, crash_vars, peer_vars>>

\* A loop test that never looks at self.running.
loop_continues_always(flag) == TRUE

\* run, line 391: while self.running
loop_continues(flag) == flag

\* run, lines 393-396 and 391: a client has connected and sent a line; a
\* handle_client thread is started for it, and the loop tests self.running.
Accept ==
    /\ main_pc = "accept"
    /\ listening
    /\ handler.pc = "idle"
    /\ clock + IDLE_TIMEOUT + Quantum <= MaxClock
    /\ \E line \in Lines : handler' = [pc |-> "received", line |-> line]
    /\ main_pc' = IF loop_continues(running) THEN "accept" ELSE "cleanup"
    /\ UNCHANGED <<clock, last_activity, listening, socket_file, idle_pc>>
    /\ UNCHANGED <<phase_vars, cli_vars, stack_vars, conc_vars, crash_vars, peer_vars>>

\* run, lines 397-398 and 391: accept() times out after a second, and the
\* loop tests self.running.
AcceptTimeout ==
    /\ main_pc = "accept"
    /\ main_pc' = IF loop_continues(running) THEN "accept" ELSE "cleanup"
    /\ UNCHANGED <<clock, last_activity, listening, socket_file, idle_pc, handler>>
    /\ UNCHANGED <<phase_vars, cli_vars, stack_vars, conc_vars, crash_vars, peer_vars>>

\* run, lines 399-401: accept() on the closed socket raises OSError.
AcceptClosed ==
    /\ main_pc = "accept"
    /\ ~listening
    /\ main_pc' = "cleanup"
    /\ UNCHANGED <<clock, last_activity, listening, socket_file, idle_pc, handler>>
    /\ UNCHANGED <<phase_vars, cli_vars, stack_vars, conc_vars, crash_vars, peer_vars>>

\* ForgeDaemon.cleanup, then run and main return.
Cleanup ==
    /\ main_pc = "cleanup"
    /\ listening' = FALSE
    /\ socket_file' = FALSE
    /\ main_pc' = "exited"
    /\ UNCHANGED <<clock, last_activity, idle_pc, handler>>
    /\ UNCHANGED <<phase_vars, cli_vars, stack_vars, conc_vars, crash_vars, peer_vars>>

\* One statement of the idle checker that writes nothing shared.
IdleGoto(pc) ==
    /\ idle_pc' = pc
    /\ UNCHANGED <<clock, last_activity, listening, socket_file, main_pc, handler>>
    /\ UNCHANGED <<phase_vars, cli_vars, stack_vars, conc_vars, crash_vars, peer_vars>>

\* idle_checker, line 356: while self.running
IdleWhile ==
    /\ idle_pc = "while"
    /\ IdleGoto(IF running THEN "sleep" ELSE "done")

\* line 357: time.sleep(30) returns.
IdleWake ==
    /\ idle_pc = "sleep"
    /\ IdleGoto("test_active")

\* line 358: if not self.forge_state.is_active()
IdleTestActive ==
    /\ idle_pc = "test_active"
    /\ IdleGoto(IF ~state.forge_active THEN "read_idle" ELSE "while")

\* lines 359-360: idle_time = time.time() - self.last_activity;
\* if idle_time > IDLE_TIMEOUT
idle_expired(now, last) == now - last > IDLE_TIMEOUT

IdleReadClock ==
    /\ idle_pc = "read_idle"
    /\ IdleGoto(IF idle_expired(clock, last_activity) THEN "stop" ELSE "while")

\* line 362: self.running = False
IdleStop ==
    /\ idle_pc = "stop"
    /\ idle_pc' = "close"
    /\ running' = FALSE
    /\ UNCHANGED <<state, state_file, request, response>>
    /\ UNCHANGED <<clock, last_activity, listening, socket_file, main_pc, handler>>
    /\ UNCHANGED <<cli_vars, stack_vars, conc_vars, crash_vars, peer_vars>>

\* lines 364-369: self.server_socket.close(); break
IdleClose ==
    /\ idle_pc = "close"
    /\ idle_pc' = "done"
    /\ listening' = FALSE
    /\ UNCHANGED <<clock, last_activity, socket_file, main_pc, handler>>
    /\ UNCHANGED <<phase_vars, cli_vars, stack_vars, conc_vars, crash_vars, peer_vars>>

\* A reply that reports success for a line that could not be served.
error_reply_as_success(message) == [success |-> TRUE, message |-> message]

\* handle_command line 324 and handle_client line 348: {"error": ...}
error_reply(message) == [error |-> message]

\* handle_client, lines 340-343 and handle_command, line 288: the line is
\* parsed; text that is not JSON is answered at once, a JSON object is
\* handed to handle_command, which first notes the time.
HandlerParse ==
    /\ handler.pc = "received"
    /\ IF handler.line.json
       THEN /\ last_activity' = clock
            /\ handler' = [handler EXCEPT !.pc = "dispatch"]
            /\ UNCHANGED <<request, response>>
       ELSE /\ request' = Req("")
            /\ response' = error_reply("Invalid JSON")
            /\ handler' = NoHandler
            /\ UNCHANGED last_activity
    /\ UNCHANGED <<state, state_file, running>>
    /\ UNCHANGED <<clock, listening, socket_file, main_pc, idle_pc>>
    /\ UNCHANGED <<cli_vars, stack_vars, conc_vars, crash_vars, peer_vars>>

\* The state daemon beside it answers a line that is not JSON
\* (handle_client, lines 585-590) or names no command (process_command,
\* lines 565-566).
SdProtocolError ==
    /\ sd_daemon = "serving"
    /\ \E line \in Lines :
        IF ~line.json
        THEN /\ sd_response' = SdResp("error", "Expecting value")
             /\ UNCHANGED sd_request
        ELSE /\ line.cmd = "no-such-command"
             /\ sd_request' = SdReq(line.cmd, "", "")
             /\ sd_response' = process_command(sd_state, SdReq(line.cmd, "", "")).resp
    /\ UNCHANGED <<sd_state, sd_file, observed>>
    /\ UNCHANGED <<phase_vars, cli_vars, conc_vars, crash_vars, env_vars>>

\* handle_command, lines 289-324, and the reply of handle_client, line 345.
HandlerDispatch ==
    /\ handler.pc = "dispatch"
    /\ LET cmd == handler.line.cmd
       IN  /\ request' = Req(cmd)
           /\ CASE cmd = "activate" ->
                    /\ state' = activate(state).st
                    /\ state_file' = _save(activate(state).st)
                    /\ response' = activate(state).resp
                    /\ UNCHANGED running
             [] cmd = "deactivate" ->
                    /\ state' = deactivate(state).st
                    /\ state_file' = _save(deactivate(state).st)
                    /\ response' = deactivate(state).resp
                    /\ UNCHANGED running
             [] cmd = "shutdown" ->
                    /\ running' = FALSE
                    /\ response' = [success |-> TRUE,
                                    message |-> "Daemon shutting down"]
                    /\ UNCHANGED <<state, state_file>>
             [] OTHER ->
                    /\ response' = error_reply("Unknown command")
                    /\ UNCHANGED <<state, state_file, running>>
    /\ handler' = NoHandler
    /\ UNCHANGED <<clock, last_activity, listening, socket_file, main_pc, idle_pc>>
    /\ UNCHANGED <<cli_vars, stack_vars, conc_vars, crash_vars, peer_vars>>

\* ForgeDaemon.__init__ and run up to line 386: the socket is bound, the
\* idle checker started, the accept loop about to be entered.
LifeInit ==
    /\ clock = 0
    /\ last_activity = 0
    /\ listening = TRUE
    /\ socket_file = TRUE
    /\ main_pc = "accept"
    /\ idle_pc = "while"
    /\ handler = NoHandler

LifeNext ==
    \/ Tick
    \/ Accept
    \/ AcceptClosed
    \/ AcceptTimeout
    \/ Cleanup
    \/ IdleWhile
    \/ IdleWake
    \/ IdleTestActive
    \/ IdleReadClock
    \/ IdleStop
    \/ IdleClose
    \/ HandlerParse
    \/ HandlerDispatch
    \/ SdProtocolError

(***************************************************************************)
(* forge-state-daemon.py: main() as a client.  The daemon is "serving"     *)
(* (PID file and socket exist), "stopping" (cleanup has closed and         *)
(* unlinked the socket, the PID file is still there and the process        *)
(* alive) or "gone" (no PID file).                                         *)
(***************************************************************************)
\* The clients push while the stack is lower than this.
MaxClientDepth == 2

\* The checkpoints recorded while the hook is watched.
MaxHookCheckpoints == 4

\* The commands the clients of session "s1" send.
ClientRequests ==
    {SdReq("push-workflow", "s1", w) : w \in WorkflowTypes}
        \cup {SdReq("pop-workflow", "s1", "")}
        \cup {SdReq("set-workflow-phase", "s1", p) : p \in StackPhases}

\* ForgeStateDaemon.__init__ / load_state: the store read from
\* daemon-state.json, {} without a readable file.
sd_load_state(f) == IF f.content = "complete" THEN f.doc ELSE EmptyStore

\* is_daemon_running, lines 653-663: the PID file names a live process.
is_daemon_running(daemon) == daemon \in {"serving", "stopping"}

NoClient ==
    [pc |-> "idle", req |-> SdReq("", "", ""), pid_seen |-> FALSE,
     via |-> "", result |-> SdResp("ok", "")]

\* main "stop" / SIGTERM: stop(), the accept loop ends, cleanup() closes the
\* socket and unlinks it, lines 637-640.
SdStop ==
    /\ sd_daemon = "serving"
    /\ sd_daemon' = "stopping"
    /\ UNCHANGED <<client, phase_vars, cli_vars, stack_vars, conc_vars, crash_vars, life_vars, hook_vars, ghost_vars>>

\* cleanup, lines 641-643: the PID file is unlinked and the process ends.
SdStopped ==
    /\ sd_daemon = "stopping"
    /\ sd_daemon' = "gone"
    /\ UNCHANGED <<client, phase_vars, cli_vars, stack_vars, conc_vars, crash_vars, life_vars, hook_vars, ghost_vars>>

\* main "start", lines 695-709: a new daemon loads the file and serves.
SdStart ==
    /\ sd_daemon = "gone"
    /\ sd_daemon' = "serving"
    /\ sd_state' = sd_load_state(sd_file)
    /\ UNCHANGED <<sd_file, sd_request, sd_response, observed, client>>
    /\ UNCHANGED <<phase_vars, cli_vars, conc_vars, crash_vars, life_vars, hook_vars, ghost_vars>>

\* main, lines 691-692 and 725: the command line is read and the PID file
\* checked.
ClientInvoke ==
    \E req \in ClientRequests :
        /\ client.pc = "idle"
        /\ req.cmd = "push-workflow" =>
                /\ Len(Get(sd_load_state(sd_file).workflow_stack, "s1", <<>>))
                        < MaxClientDepth
                /\ Len(Get(sd_state.workflow_stack, "s1", <<>>)) < MaxClientDepth
        /\ client' = [client EXCEPT !.pc = "called", !.req = req,
                                    !.pid_seen = is_daemon_running(sd_daemon)]
        /\ UNCHANGED <<sd_daemon, phase_vars, cli_vars, stack_vars, conc_vars, crash_vars, life_vars, hook_vars, ghost_vars>>

\* main, lines 726-728, and send_to_daemon: the daemon handles the command and
\* its reply is printed; if the socket cannot be reached, the reply printed
\* is the error dict of line 682.
ClientSend ==
    /\ client.pc = "called"
    /\ client.pid_seen
    /\ IF sd_daemon = "serving"
       THEN LET out == process_command(sd_state, client.req)
            IN  /\ sd_request' = client.req
                /\ sd_state' = out.st
                /\ sd_response' = out.resp
                /\ sd_file' = IF out.saved THEN save_state(out.st) ELSE sd_file
                /\ client' = [client EXCEPT !.pc = "idle", !.via = "daemon",
                                            !.result = out.resp]
       ELSE /\ client' = [client EXCEPT !.pc = "idle", !.via = "error",
                                        !.result = SdResp("error", "socket.error")]
            /\ UNCHANGED <<sd_state, sd_file, sd_request, sd_response>>
    /\ UNCHANGED <<sd_daemon, observed>>
    /\ UNCHANGED <<phase_vars, cli_vars, conc_vars, crash_vars, life_vars, hook_vars, ghost_vars>>

\* main, lines 730-734: a ForgeStateDaemon built in the client loads the
\* file, handles the command, saves, and its reply is printed.
ClientDirect ==
    /\ client.pc = "called"
    /\ ~client.pid_seen
    /\ LET out == process_command(sd_load_state(sd_file), client.req)
       IN  /\ sd_file' = IF out.saved THEN save_state(out.st) ELSE sd_file
           /\ client' = [client EXCEPT !.pc = "idle", !.via = "direct",
                                       !.result = out.resp]
    /\ UNCHANGED <<sd_daemon, sd_state, sd_request, sd_response, observed>>
    /\ UNCHANGED <<phase_vars, cli_vars, conc_vars, crash_vars, life_vars, hook_vars, ghost_vars>>

ClientInit ==
    /\ sd_daemon = "serving"
    /\ client = NoClient

ClientNext ==
    \/ SdStop
    \/ SdStopped
    \/ SdStart
    \/ ClientInvoke
    \/ ClientSend
    \/ ClientDirect

(***************************************************************************)
(* forge-hook.py: one run of the hook, beside a phase daemon whose saves   *)
(* are followed from the open of the state file to its close.  The hook    *)
(* reads the file once per run.                                            *)
(***************************************************************************)
\* ForgeState.workspace_root, line 104: the directory the daemon was started
\* for, recorded in every document it writes.
WorkspaceRoot == "/ws"

\* get_workspace_root: what the hook's environment names; "/copy" is a
\* directory holding a state file written for another one.
Workspaces == {WorkspaceRoot, "/copy"}

STRICT_PHASES ==
    [p \in {0, 2, 3, 4} |->
        [block_unless_confirmed |-> p = 4,
         block |-> IF p \in {0, 4} THEN {"Write", "Edit", "Bash"}
                                   ELSE {"Write", "Edit"}]]

\* The event types on the command line; "notification" is none the hook
\* knows.
HookEvents ==
    {"session-start", "pre-tool", "post-tool", "user-prompt", "stop",
     "notification"}

HookTools == {"Write", "Edit", "Bash", "Read", "Task"}

\* tool_input.subagent_type of a Task call.
Subagents ==
    {PHASES[p].agent : p \in 0..4} \cup {"forge:other-agent", "general-purpose"}

\* subagent_type.startswith("forge:")
is_forge_agent(a) == a \in Agents

\* An ownership test that accepts a state file written for any workspace.
is_forge_active_anywhere(f, workspace_root) ==
    /\ f.content = "complete"
    /\ f.doc.forge_active

\* is_forge_active_for_workspace, lines 95-122: the file exists, parses,
\* has forge_active set and records this workspace.
is_forge_active_for_workspace(f, workspace_root) ==
    /\ f.content # "absent"
    /\ f.content = "complete"
    /\ f.doc.forge_active
    /\ WorkspaceRoot = workspace_root

\* output_response: the decision printed and the commands sent to the daemon
\* before it.
Answer(decision, sent) == [decision |-> decision, sent |-> sent]

handle_session_start(f, workspace_root) == Answer("approve", <<>>)

\* handle_pre_tool, lines 323-366
handle_pre_tool(f, workspace_root, tool_name) ==
    IF ~is_forge_active_for_workspace(f, workspace_root)
    THEN Answer("approve", <<>>)
    ELSE LET st == read_state_file(f)
         IN  IF st.phase \in DOMAIN STRICT_PHASES
             THEN LET config == STRICT_PHASES[st.phase]
                  IN  IF config.block_unless_confirmed /\ ~st.confirmed
                      THEN IF tool_name \in config.block
                           THEN Answer("block", <<>>)
                           ELSE Answer("approve", <<>>)
                      ELSE IF ~config.block_unless_confirmed
                                /\ tool_name \in config.block
                      THEN Answer("block", <<>>)
                      ELSE Answer("approve", <<>>)
             ELSE Answer("approve", <<>>)

\* The state the post-tool and user-prompt handlers work from: the daemon's
\* answer to "get" when it is running, the file otherwise.
hook_state(f, daemon, st) ==
    IF daemon THEN [phase |-> st.phase, forge_active |-> st.forge_active,
                    confirmed |-> st.confirmed]
              ELSE read_state_file(f)

\* handle_post_tool, lines 369-447, up to the checkpoint it sends.
handle_post_tool(f, workspace_root, tool_name, subagent_type, daemon, st) ==
    IF ~is_forge_active_for_workspace(f, workspace_root)
    THEN Answer("approve", <<>>)
    ELSE IF tool_name # "Task" \/ ~is_forge_agent(subagent_type)
    THEN Answer("approve", <<>>)
    ELSE LET got == IF daemon THEN <<"get">> ELSE <<>>
             current_phase == hook_state(f, daemon, st).phase
         IN  IF subagent_type # PHASES[current_phase].agent \/ ~daemon
             THEN Answer("approve", got)
             ELSE Answer("approve", got \o <<"checkpoint">>)

\* handle_user_prompt, lines 450-492; confirms says whether the prompt
\* matches one of CONFIRM_PATTERNS.
handle_user_prompt(f, workspace_root, confirms, daemon, st) ==
    IF ~is_forge_active_for_workspace(f, workspace_root)
    THEN Answer("approve", <<>>)
    ELSE LET got == IF daemon THEN <<"get">> ELSE <<>>
             seen == hook_state(f, daemon, st)
         IN  IF seen.phase # 4 \/ seen.confirmed \/ ~confirms \/ ~daemon
             THEN Answer("approve", got)
             ELSE Answer("approve", got \o <<"confirm">>)

\* handle_stop, lines 495-522: the validation it may run sends nothing to
\* the daemon.
handle_stop(f, workspace_root) == Answer("approve", <<>>)

\* main, lines 525-550
hook_main(event_type, f, workspace_root, tool_name, subagent_type, confirms, daemon, st) ==
    CASE event_type = "session-start" -> handle_session_start(f, workspace_root)
      [] event_type = "pre-tool" -> handle_pre_tool(f, workspace_root, tool_name)
      [] event_type = "post-tool" ->
            handle_post_tool(f, workspace_root, tool_name, subagent_type,
                             daemon, st)
      [] event_type = "user-prompt" ->
            handle_user_prompt(f, workspace_root, confirms, daemon, st)
      [] event_type = "stop" -> handle_stop(f, workspace_root)
      [] OTHER -> Answer("approve", <<>>)

\* The command of the hook that changes the daemon's document, if it sent
\* one, handled by the daemon to the end of its save.
HookCommand(sent, subagent_type) ==
    IF sent # <<>> /\ sent[Len(sent)] = "checkpoint"
    THEN /\ request' = [Req("checkpoint") EXCEPT !.agent = subagent_type]
         /\ state' = checkpoint(state, subagent_type).st
         /\ response' = checkpoint(state, subagent_type).resp
         /\ state_file' = IF checkpoint(state, subagent_type).saved
                          THEN _save(checkpoint(state, subagent_type).st)
                          ELSE state_file
    ELSE IF sent # <<>> /\ sent[Len(sent)] = "confirm"
    THEN /\ request' = Req("confirm")
         /\ state' = confirm(state).st
         /\ response' = confirm(state).resp
         /\ state_file' = IF confirm(state).saved THEN _save(confirm(state).st)
                                                  ELSE state_file
    ELSE UNCHANGED <<state, state_file, request, response>>

\* The hook input: the tool name matters to the tool events only, the
\* subagent to a Task call, the prompt to user-prompt.
ToolsOf(event_type) ==
    IF event_type \in {"pre-tool", "post-tool"} THEN HookTools ELSE {""}

SubagentsOf(event_type, tool_name) ==
    IF event_type = "post-tool" /\ tool_name = "Task" THEN Subagents
                                                      ELSE {"general-purpose"}

PromptsOf(event_type) ==
    IF event_type = "user-prompt" THEN BOOLEAN ELSE {FALSE}

\* One run of the hook.
HookRun ==
    \E event_type \in HookEvents, workspace_root \in Workspaces :
    \E tool_name \in ToolsOf(event_type) :
    \E subagent_type \in SubagentsOf(event_type, tool_name) :
    \E confirms \in PromptsOf(event_type) :
        LET daemon == running /\ socket_file
            answer == hook_main(event_type, state_file, workspace_root,
                                tool_name, subagent_type, confirms, daemon,
                                state)
        IN  /\ answer.sent # <<>> => inflight.pd.pc = "idle"
            /\ answer.sent # <<>> => Len(state.checkpoints) < MaxHookCheckpoints
            /\ hook.event = ""
            /\ hook' = [event |-> event_type,
                        workspace |-> workspace_root, tool |-> tool_name,
                        decision |-> answer.decision, sent |-> answer.sent]
            /\ HookCommand(answer.sent, subagent_type)
            /\ UNCHANGED <<running, cli_vars, stack_vars, conc_vars, crash_vars,
                           life_vars, client_vars, ghost_vars>>

\* The design documents sent while the hook is watched.
HookContents == {"design-a", "design-b"}

\* The commands other clients send to the daemon meanwhile.
HdConfirm == PdCommand(Req("confirm"), confirm(state))

HdSetPhase ==
    PdCommand([Req("set-phase") EXCEPT !.phase = 4], set_phase(state, 4))

HdSetDesignHash ==
    \E c \in HookContents :
        PdCommand([Req("set-design-hash") EXCEPT !.content = c],
                  set_design_hash(state, c))

\* No hook is running.
NoHook ==
    [event |-> "", workspace |-> WorkspaceRoot, tool |-> "",
     decision |-> "approve", sent |-> <<>>]

\* sys.exit(0) in output_response: the hook process is gone.
HookExit ==
    /\ hook.event # ""
    /\ hook' = NoHook
    /\ UNCHANGED <<phase_vars, cli_vars, stack_vars, conc_vars, crash_vars,
                   life_vars, client_vars, ghost_vars>>

\* The workspace's .claude/local directory is cleaned while the daemon runs.
StateFileRemoved ==
    /\ inflight.pd.pc = "idle"
    /\ state_file.content = "complete"
    /\ state_file' = [content |-> "absent", doc |-> InitState]
    /\ UNCHANGED <<state, request, response, running>>
    /\ UNCHANGED <<cli_vars, stack_vars, conc_vars, crash_vars, env_vars>>

\* A step of the daemon between two runs of the hook.
Between(step) == hook.event = "" /\ step

HookInit == hook = NoHook

HookNext ==
    \/ Between(PdActivate)
    \/ Between(PdDeactivate)
    \/ Between(HdConfirm)
    \/ Between(HdSetPhase)
    \/ Between(HdSetDesignHash)
    \/ Between(PdClose)
    \/ Between(StateFileRemoved)
    \/ HookRun
    \/ HookExit

(***************************************************************************)
(* forge-daemon.py: the commands of the approval, one at a time, with a    *)
(* note of the design_hash the document held when confirm() last           *)
(* succeeded.                                                              *)
(***************************************************************************)
\* No confirm() has succeeded yet.
Unapproved == "unapproved"

\* handle_command for one command, and the note.
ApHandle(req, out) ==
    /\ running
    /\ request' = req
    /\ state' = out.st
    /\ response' = out.resp
    /\ state_file' = IF out.saved THEN _save(out.st) ELSE state_file
    /\ approved' = IF req.cmd = "confirm" /\ out.resp.success
                   THEN state.design_hash
                   ELSE approved
    /\ UNCHANGED running
    /\ UNCHANGED <<cli_vars, stack_vars, conc_vars, crash_vars, life_vars,
                   client_vars, hook_vars>>

ApActivate == ApHandle(Req("activate"), activate(state))

ApConfirm == ApHandle(Req("confirm"), confirm(state))

ApSetDesignHash ==
    \E c \in Contents :
        ApHandle([Req("set-design-hash") EXCEPT !.content = c],
                 set_design_hash(state, c))

ApSetPhase ==
    \E n \in PhaseInputs :
        ApHandle([Req("set-phase") EXCEPT !.phase = n], set_phase(state, n))

ApCheckpoint ==
    \E a \in Agents :
        /\ Len(state.checkpoints) < MaxCheckpoints
        /\ ApHandle([Req("checkpoint") EXCEPT !.agent = a], checkpoint(state, a))

ApprovalInit == approved = Unapproved

ApprovalNext ==
    \/ ApActivate
    \/ ApConfirm
    \/ ApSetDesignHash
    \/ ApSetPhase
    \/ ApCheckpoint

(***************************************************************************)
(* Specifications: each program on its own                                 *)
(***************************************************************************)
vars ==
    <<state, state_file, request, response, running, wf_file, cli,
      sd_state, sd_file, sd_request, sd_response, observed,
      worker, round_start, sd_worker, inflight, wf_disk, sd_tmp,
      clock, last_activity, listening, socket_file, main_pc, idle_pc, handler,
      sd_daemon, client, hook, approved>>

\* Every program freshly started on an empty workspace.
Init ==
    PhaseInit /\ CliStart /\ StackInit /\ ConcInit /\ SdConcInit /\ CrashInit
        /\ LifeInit /\ ClientInit /\ HookInit /\ ApprovalInit

\* The phase daemon serving commands one at a time.
SpecPhase == Init /\ [][PhaseNext]_vars

\* forge-state.py invoked again and again on one workspace.
SpecCli == Init /\ [][CliNext]_vars

\* The state daemon serving stack commands one at a time.
SpecStack == Init /\ [][StackNext]_vars

\* The state daemon serving validation commands one at a time.
SpecProtocol == Init /\ [][ProtocolNext]_vars

\* The phase daemon's threads: accept loop, idle checker, one connection.
SpecLife == Init /\ [][LifeNext]_vars

\* The same with the scheduling the code relies on: time passes, accept()
\* returns after its one-second timeout (or at once on a closed socket), and
\* every started thread gets to run its next statement.
SpecLifeFair ==
    /\ SpecLife
    /\ WF_vars(Tick)
    /\ WF_vars(AcceptTimeout)
    /\ WF_vars(AcceptClosed)
    /\ WF_vars(Cleanup)
    /\ WF_vars(IdleWhile)
    /\ WF_vars(IdleWake)
    /\ WF_vars(IdleTestActive)
    /\ WF_vars(IdleReadClock)
    /\ WF_vars(IdleStop)
    /\ WF_vars(IdleClose)
    /\ WF_vars(HandlerParse)
    /\ WF_vars(HandlerDispatch)

\* Clients of a state daemon that is stopped and started.
SpecClient == Init /\ [][ClientNext]_vars

\* The hook beside a phase daemon that saves in place.
SpecHook == Init /\ [][HookNext]_vars

\* The state daemon counting for concurrent clients.
SpecSdInc == Init /\ [][SdIncNext]_vars

\* The phase daemon's approval commands, one at a time.
SpecApproval == Init /\ [][ApprovalNext]_vars

\* The phase daemon serving concurrent connections.
SpecSdSeq == Init /\ [][SdSeqNext]_vars

SpecGate == Init /\ [][GateNext]_vars

SpecCliPhase == Init /\ [][CliPhaseNext]_vars

SpecCheckpointRun == Init /\ [][CheckpointRunNext]_vars

SpecSession == Init /\ [][SessionNext]_vars

SpecStep == Init /\ [][StepNext]_vars

SpecConc == Init /\ [][ConcNext]_vars

\* The state daemon serving concurrent connections.
SpecSdConc == Init /\ [][SdConcNext]_vars

\* The three programs saving, and killed at any moment.
SpecCrash == Init /\ [][CrashNext]_vars

Spec == SpecPhase

(***************************************************************************)
(* Properties of the phase machine                                         *)
(***************************************************************************)
\* The step is the daemon handling command cmd (a kill leaves it not running).
Handled(cmd) == running' /\ request'.cmd = cmd

\* A checkpoint call a workflow run is meant to make: the workflow is active,
\* the agent is the current phase's, and at Execute the user has confirmed.
CorrectCall(st, agent) ==
    /\ st.forge_active
    /\ agent = PHASES[st.phase].agent
    /\ (st.phase = 4 => st.confirmed /\ ~st.requires_reconfirmation)

\* A checkpoint call with an agent other than the current phase's.
WrongAgentCall(st, agent) == agent # PHASES[st.phase].agent

\* The step is a checkpoint command and leaves everything but the reply alone.
CheckpointRejected ==
    /\ ~response'.success
    /\ state' = state
    /\ state_file' = state_file

\* The run so far is activate() followed by checkpoints in phase order.
InOrderRun(st) ==
    /\ Len(st.checkpoints) = st.phase
    /\ \A i \in 1..Len(st.checkpoints) : st.checkpoints[i].phase = i - 1

\* C1 as stated: from activate(), every checkpoint with the authorized agent
\* raises the phase by one, so that the phase goes from 0 up to
\* MAX_PHASE + 1 at completion, and a checkpoint with another agent fails
\* and changes nothing.
C1_PhaseReachesMaxPlusOne ==
    [][Handled("checkpoint") =>
        /\ InOrderRun(state) /\ CorrectCall(state, request'.agent) =>
                /\ response'.success
                /\ state'.phase = state.phase + 1
        /\ WrongAgentCall(state, request'.agent) => CheckpointRejected]_vars

\* C1 (amended): phase stays within 0..MAX_PHASE; every checkpoint with the
\* authorized agent below MAX_PHASE raises the phase by exactly one and
\* appends one checkpoint; the one at MAX_PHASE leaves phase at MAX_PHASE,
\* deactivates the workflow and reports completion; a checkpoint with any
\* other agent fails and leaves phase and the checkpoints list unchanged.
C1_PhaseMonotonicity ==
    [][/\ state'.phase \in 0..MAX_PHASE
       /\ Handled("checkpoint") =>
            /\ CorrectCall(state, request'.agent) =>
                    /\ response'.success
                    /\ Len(state'.checkpoints) = Len(state.checkpoints) + 1
                    /\ IF state.phase < MAX_PHASE
                       THEN /\ state'.phase = state.phase + 1
                            /\ state'.forge_active
                            /\ response'.advanced
                            /\ response'.phase = state.phase + 1
                       ELSE /\ state'.phase = MAX_PHASE
                            /\ ~state'.forge_active
                            /\ response'.completed
            /\ WrongAgentCall(state, request'.agent) => CheckpointRejected]_vars

\* A run of six checkpoints in phase order, 0..MAX_PHASE, has completed.
C1_Witness ==
    /\ response.completed
    /\ ~state.forge_active
    /\ state.phase = MAX_PHASE
    /\ Len(state.checkpoints) = MAX_PHASE + 1
    /\ \A i \in 1..(MAX_PHASE + 1) : state.checkpoints[i].phase = i - 1

\* The step is checkpoint(execute-agent) with the phase at Execute.
ExecuteCheckpointStep ==
    /\ Handled("checkpoint")
    /\ request'.agent = PHASES[4].agent
    /\ state.phase = 4

\* The command before this step was a confirm() that succeeded.
JustConfirmed == request.cmd = "confirm" /\ response.success

\* What the confirmation gate promises of checkpoint(execute-agent).
GateBehaviour ==
    /\ ~state.confirmed =>
            /\ response'.error = "Execute phase requires user confirmation first"
            /\ CheckpointRejected
    /\ JustConfirmed =>
            /\ response'.success
            /\ state'.phase = 5
            /\ Len(state'.checkpoints) = Len(state.checkpoints) + 1

\* C2 as stated: at the Execute phase, checkpoint(execute-agent) without
\* confirmation fails with the confirmation error and changes nothing, and
\* right after a successful confirm() it succeeds and moves to phase 5.
C2_GateWheneverAtExecute ==
    [][ExecuteCheckpointStep => GateBehaviour]_vars

\* C2 (amended): the same, for a workflow that is active.
C2_ConfirmationGate ==
    [][ExecuteCheckpointStep /\ state.forge_active => GateBehaviour]_vars

\* checkpoint(execute-agent) has just succeeded right after confirm(), and
\* the checkpoint list ends with an Execute entry.
C2_Witness ==
    /\ request.cmd = "checkpoint"
    /\ request.agent = PHASES[4].agent
    /\ response.success
    /\ state.phase = 5
    /\ state.confirmed

\* The step is set_design_hash on a confirmed workflow.
HashStepWhenConfirmed == Handled("set-design-hash") /\ state.confirmed

Revoked == state'.requires_reconfirmation /\ ~state'.confirmed

FlagsKept ==
    /\ state'.confirmed = state.confirmed
    /\ state'.requires_reconfirmation = state.requires_reconfirmation

C9_FallbackEquivalence ==
    LET onDisk == read_state_file(state_file)
    IN  /\ onDisk.phase = state.phase
        /\ onDisk.forge_active = state.forge_active
        /\ response.phase # -1 => onDisk.phase = response.phase

\* The persistence test's scenario, then a kill: activate and
\* checkpoint(input-agent) through the daemon, and the file read after the
\* daemon is gone says phase 1, active.
C9_Witness ==
    /\ ~running
    /\ request.cmd = "checkpoint"
    /\ response.phase = 1
    /\ read_state_file(state_file).phase = 1
    /\ read_state_file(state_file).forge_active

\* C11: in every state reached through activate, deactivate, confirm,
\* checkpoint, set_design_hash, set_phase and add_rollback_point, confirmed
\* and requires_reconfirmation are never both true.
C11_ConfirmedExcludesReconfirmation ==
    ~(state.confirmed /\ state.requires_reconfirmation)

\* A design change after the Execute checkpoint has raised
\* requires_reconfirmation, and confirmed went down with it.
C11_Witness ==
    /\ request.cmd = "set-design-hash"
    /\ state.requires_reconfirmation
    /\ ~state.confirmed
    /\ state.phase = 5
    /\ state.forge_active

\* C12 as stated: every operation other than set_phase leaves phase greater
\* than or equal to its previous value.
C12_OnlySetPhaseLowers ==
    [][running' /\ request'.cmd # "set-phase" =>
            state'.phase >= state.phase]_vars

\* C12 (amended): every operation other than set_phase and activate leaves
\* phase greater than or equal to its previous value, and activate sets it
\* to 0 whatever it was.
C12_PhaseNonDecreasing ==
    [][/\ Handled("activate") => state'.phase = 0
       /\ running' /\ request'.cmd \notin {"set-phase", "activate"} =>
            state'.phase >= state.phase]_vars

\* The workflow has climbed to phase 3 by checkpoints alone.
C12_Witness ==
    /\ request.cmd = "checkpoint"
    /\ response.advanced
    /\ state.phase = 3
    /\ Len(state.checkpoints) = 3

\* The checkpoints list is that of a whole run: one entry per phase, in order.
CompletedRun(st) ==
    /\ Len(st.checkpoints) = MAX_PHASE + 1
    /\ \A i \in 1..(MAX_PHASE + 1) : st.checkpoints[i].phase = i - 1

\* C18: a successful checkpoint at MAX_PHASE deactivates the workflow and
\* reports completed = true with advanced = false, the phase staying at
\* MAX_PHASE; the sixth checkpoint of an in-order run (which passed Execute
\* only after a confirm) succeeds, and a workflow whose checkpoints are those
\* of a whole in-order run is deactivated.
C18_Completion ==
    [][/\ (Handled("checkpoint") /\ state.phase = MAX_PHASE /\ response'.success) =>
            /\ ~state'.forge_active
            /\ response'.completed
            /\ ~response'.advanced
            /\ state'.phase = MAX_PHASE
       /\ (/\ Handled("checkpoint")
           /\ state.phase = MAX_PHASE
           /\ InOrderRun(state)
           /\ CorrectCall(state, request'.agent)) =>
            /\ response'.success
            /\ CompletedRun(state')
       /\ CompletedRun(state') => ~state'.forge_active]_vars

\* checkpoint(validate-agent) has just completed a confirmed workflow.
C18_Witness ==
    /\ request.cmd = "checkpoint"
    /\ request.agent = PHASES[MAX_PHASE].agent
    /\ response.success
    /\ response.completed
    /\ ~response.advanced
    /\ ~state.forge_active
    /\ state.confirmed
    /\ CompletedRun(state)

\* The state every activate() leaves.
Activated == [InitState EXCEPT !.forge_active = TRUE]

\* C19: activate() succeeds from every state and leaves forge_active = true,
\* phase = 0, confirmed = false, requires_reconfirmation = false, no
\* design_hash, no checkpoints and no rollback points, saved to the file;
\* an activate() right after an activate() changes nothing.
C19_ActivateResets ==
    [][Handled("activate") =>
        /\ response'.success
        /\ response'.phase = 0
        /\ state' = Activated
        /\ state_file' = Written(Activated)
        /\ request.cmd = "activate" =>
                /\ state' = state
                /\ state_file' = state_file
                /\ response' = response]_vars

\* activate() has just answered, and the workflow is at phase 0 with
\* nothing recorded.
C19_Witness ==
    /\ request.cmd = "activate"
    /\ response.success
    /\ response.phase = 0
    /\ state = Activated
    /\ read_state_file(state_file).forge_active

\* C20: confirm() succeeds exactly when the phase is 4; at any other phase
\* it fails and leaves the whole state, and the file, unchanged; when it
\* succeeds it sets confirmed, clears requires_reconfirmation and changes
\* nothing else.
C20_ConfirmOnlyAtExecute ==
    [][Handled("confirm") =>
        IF state.phase = 4
        THEN /\ response'.success
             /\ state' = [state EXCEPT !.confirmed = TRUE,
                                        !.requires_reconfirmation = FALSE]
        ELSE /\ ~response'.success
             /\ response'.error = "Confirmation only valid for Execute phase (4)"
             /\ state' = state
             /\ state_file' = state_file]_vars

\* confirm() has just been refused at the Validate phase, where a design
\* change had asked for reconfirmation: the request is still pending.
C20_Witness ==
    /\ request.cmd = "confirm"
    /\ ~response.success
    /\ state.phase = 5
    /\ state.requires_reconfirmation
    /\ ~state.confirmed

\* C21: set_phase(n) succeeds exactly when 0 <= n <= MAX_PHASE; phase then
\* becomes n and confirmed false, whatever it was, and nothing else changes;
\* for n outside the range it fails and leaves the whole state, and the
\* file, unchanged.
C21_SetPhaseBounds ==
    [][Handled("set-phase") =>
        LET n == request'.phase
        IN  IF n \in 0..MAX_PHASE
            THEN /\ response'.success
                 /\ response'.phase = n
                 /\ state' = [state EXCEPT !.phase = n, !.confirmed = FALSE]
            ELSE /\ ~response'.success
                 /\ state' = state
                 /\ state_file' = state_file]_vars

\* set_phase(4) has just taken a workflow back from Validate to Execute: the
\* Execute checkpoint is on record, and the confirmation it needed is gone.
C21_Witness ==
    /\ request.cmd = "set-phase"
    /\ request.phase = 4
    /\ response.success
    /\ state.phase = 4
    /\ ~state.confirmed
    /\ Len(state.checkpoints) = 5
    /\ state.checkpoints[5].phase = 4

\* C22 as stated: with requires_reconfirmation set on an active workflow at
\* the Execute phase, checkpoint(execute-agent) fails with the
\* reconfirmation-required error, which is not the confirmation-required
\* one, and does not advance the phase.
C22_ReconfirmationError ==
    [][(/\ ExecuteCheckpointStep
        /\ state.forge_active
        /\ state.requires_reconfirmation) =>
            /\ ~response'.success
            /\ response'.error = "Design was modified - reconfirmation required"
            /\ response'.error # "Execute phase requires user confirmation first"
            /\ state'.phase = state.phase]_vars

\* What the code does in that case: the checkpoint is refused and nothing
\* changes, but with the confirmation-required error; no checkpoint is ever
\* answered with the reconfirmation-required one.
ReconfirmationAnsweredAsConfirmation ==
    [][/\ (/\ ExecuteCheckpointStep
           /\ state.forge_active
           /\ state.requires_reconfirmation) =>
            /\ response'.error = "Execute phase requires user confirmation first"
            /\ CheckpointRejected
       /\ response'.error # "Design was modified - reconfirmation required"]_vars

(***************************************************************************)
(* Properties of the phase daemon's shutdown                               *)
(***************************************************************************)
\* C23 as stated: the idle checker stops the daemon (line 362) only in a
\* state where the workflow is inactive and more than IDLE_TIMEOUT seconds
\* have passed since the last handled command, also when an activate is
\* handled while the check is under way.
C23_IdleStopOnlyWhenInactive ==
    [][(idle_pc = "stop" /\ idle_pc' = "close") =>
            /\ ~state.forge_active
            /\ clock - last_activity > IDLE_TIMEOUT]_vars

\* What does hold: when the idle checker decided to stop, at lines 358-360,
\* the workflow was inactive at its first read and the timeout had passed
\* at its second.
IdleStopDecidedWhenInactive ==
    [][/\ (idle_pc = "test_active" /\ idle_pc' = "read_idle") => ~state.forge_active
       /\ (idle_pc = "read_idle" /\ idle_pc' = "stop") =>
                clock - last_activity > IDLE_TIMEOUT]_vars

\* The daemon is gone: the accept loop left, the socket closed and its file
\* removed.
Exited == main_pc = "exited" /\ ~listening /\ ~socket_file

\* C24: if from some point on the workflow is inactive and no connection
\* is being served, the daemon eventually closes its socket, leaves the
\* accept loop, removes the socket file and exits; and once a shutdown
\* command has been handled, the same happens.
C24_IdleShutdownLiveness ==
    /\ <>[](~state.forge_active /\ handler.pc = "idle") => <>Exited
    /\ (request.cmd = "shutdown") ~> Exited

\* The daemon has exited on the idle timeout after a workflow was
\* activated and deactivated again.
C24_Witness ==
    /\ Exited
    /\ idle_pc = "done"
    /\ request.cmd = "deactivate"
    /\ ~state.forge_active
    /\ clock - last_activity > IDLE_TIMEOUT

\* A connection thread of the phase daemon answers a request that is not
\* JSON (handle_client, line 348) or names no command (handle_command,
\* line 324).
ProtocolError ==
    /\ handler'.pc = "idle"
    /\ \/ handler.pc = "received" /\ ~handler.line.json
       \/ /\ handler.pc = "dispatch"
          /\ handler.line.cmd \notin {"activate", "deactivate", "shutdown"}

\* A protocol error changes neither the state nor its file and does not stop
\* the daemon.
ProtocolErrorHarmless ==
    /\ state' = state
    /\ state_file' = state_file
    /\ running' = running
    /\ listening' = listening

\* The state daemon answers such a request.
SdProtocolErrorAnswered == <<sd_request, sd_response>>' # <<sd_request, sd_response>>

\* It changes neither the store nor its file and does not stop the daemon.
SdProtocolErrorHarmless ==
    /\ sd_state' = sd_state
    /\ sd_file' = sd_file
    /\ sd_daemon' = "serving"

ClientAnswered == client.pc = "called" /\ client'.pc = "idle"

\* The command was applied in the client to the document on disk: the result
\* printed and the file afterwards are those of process_command on the
\* loaded document.
AppliedInProcess ==
    LET out == process_command(sd_load_state(sd_file), client.req)
    IN  /\ client'.result = out.resp
        /\ sd_file' = IF out.saved THEN save_state(out.st) ELSE sd_file

\* C26 as stated: whenever the client cannot reach the daemon, it completes
\* the command in-process on the on-disk document; a transport failure is
\* never the command's result.
C26_GracefulFallback ==
    [][ClientAnswered /\ sd_daemon # "serving" => AppliedInProcess]_vars

\* What does hold: the client falls back when the PID check at line 725
\* found no live daemon.
FallbackWithoutLiveDaemon ==
    [][ClientAnswered /\ ~client.pid_seen => AppliedInProcess]_vars

(***************************************************************************)
(* Properties of the hook                                                  *)
(***************************************************************************)
\* The hook has run: its answer is printed.
HookRan == hook.event = "" /\ hook'.event # ""

\* The state file f gives the hook of a workspace nothing to act on: it is
\* missing, does not parse, has forge_active false or was written for
\* another workspace.
Passive(f, workspace) ==
    \/ f.content = "absent"
    \/ f.content \in {"empty", "partial"}
    \/ f.content = "complete" /\ ~f.doc.forge_active
    \/ workspace # WorkspaceRoot

\* C27: whatever the event and its input, a hook that finds such a state
\* file answers approve, sends no command to the daemon and changes neither
\* the daemon's document nor the file.
C27_HookPassivity ==
    [][HookRan /\ Passive(state_file, hook'.workspace) =>
            /\ hook'.decision = "approve"
            /\ hook'.sent = <<>>
            /\ state' = state
            /\ state_file' = state_file]_vars

\* A Write call was let through in a copy of the workspace whose state file
\* says that the workflow awaits confirmation in the Execute phase.
C27_Witness ==
    /\ hook.event = "pre-tool"
    /\ hook.tool = "Write"
    /\ hook.workspace = "/copy"
    /\ hook.decision = "approve"
    /\ state_file.content = "complete"
    /\ state_file.doc.forge_active
    /\ state_file.doc.phase = 4
    /\ ~state_file.doc.confirmed

\* The tool calls the workflow in document st forbids.
Gated(st, tool) ==
    /\ st.forge_active
    /\ \/ st.phase = 4 /\ ~st.confirmed /\ tool \in {"Write", "Edit", "Bash"}
       \/ st.phase = 0 /\ tool \in {"Write", "Edit", "Bash"}
       \/ st.phase \in {2, 3} /\ tool \in {"Write", "Edit"}

\* C28 as stated: while the daemon's workflow is active, the pre-tool hook of
\* its workspace blocks Write, Edit and Bash in the unconfirmed Execute
\* phase and in Input, and Write and Edit in Design and Preview.
C28_PreToolGate ==
    [][HookRan /\ hook'.event = "pre-tool" /\ hook'.workspace = WorkspaceRoot
            /\ Gated(state, hook'.tool)
        => hook'.decision = "block"]_vars

\* What does hold: the hook blocks these calls whenever the state file it
\* reads is completely written.
PreToolGateOnWrittenFile ==
    [][HookRan /\ hook'.event = "pre-tool" /\ hook'.workspace = WorkspaceRoot
            /\ state_file.content = "complete"
            /\ Gated(state, hook'.tool)
        => hook'.decision = "block"]_vars

(***************************************************************************)
(* Properties of the command step                                          *)
(***************************************************************************)
\* The step get-command-step reports for a workflow of type w in session s1.
StepOf(st, w) == Get(st.command_step, <<"s1", w>>, 1)

\* The stack of session s1.
StackOfS1(st) == Get(st.workflow_stack, "s1", <<>>)

\* get-command-step is answered right after a push-workflow.
GetAfterPush ==
    sd_request.cmd = "push-workflow" /\ sd_request'.cmd = "get-command-step"

\* C40 as stated: get-command-step right after any push-workflow reports
\* step 1 for the new active workflow, and advancing the step of the active
\* workflow changes the step of no suspended workflow below it.
C40_PushStartsAtStepOne ==
    [][/\ GetAfterPush => sd_response'.step = 1
       /\ (sd_request'.cmd = "advance-command-step" /\ sd_response'.status = "ok") =>
            \A i \in 1..(Len(StackOfS1(sd_state)) - 1) :
                StepOf(sd_state', StackOfS1(sd_state)[i].workflow_type)
                    = StepOf(sd_state, StackOfS1(sd_state)[i].workflow_type)]_vars

\* What does hold: get-command-step reports the step recorded for the type
\* of the active workflow, 1 when none is recorded; right after the hook has
\* started a root workflow it reports 1; and advancing changes the step of
\* no suspended workflow of another type.
StepFollowsType ==
    [][/\ (sd_request'.cmd = "get-command-step" /\ StackOfS1(sd_state) # <<>>) =>
            sd_response'.step =
                StepOf(sd_state, StackOfS1(sd_state)[Len(StackOfS1(sd_state))].workflow_type)
       /\ (sd_request.cmd = "user-prompt" /\ sd_response.step = 1
                /\ sd_request'.cmd = "get-command-step") =>
            sd_response'.step = 1
       /\ (sd_request'.cmd = "advance-command-step" /\ sd_response'.status = "ok") =>
            \A i \in 1..(Len(StackOfS1(sd_state)) - 1) :
                StackOfS1(sd_state)[i].workflow_type
                        # StackOfS1(sd_state)[Len(StackOfS1(sd_state))].workflow_type
                    => StepOf(sd_state', StackOfS1(sd_state)[i].workflow_type)
                        = StepOf(sd_state, StackOfS1(sd_state)[i].workflow_type)]_vars

(***************************************************************************)
(* Properties of the state daemon's counters                               *)
(***************************************************************************)
\* The clients that connected at the same time have all been answered; they
\* sent cmd.
Counted(cmd) ==
    /\ Busy # {}
    /\ \A t \in Busy : sd_worker[t].pc = "done" /\ sd_worker[t].cmd = cmd

\* The counter when the first of them connected.
Base == sd_worker[CHOOSE t \in Busy : TRUE].base

\* The number a reply carries: "value" of inc, "current_step" of
\* advance-command-step.
Carried(t) ==
    IF sd_worker[t].cmd = "inc" THEN sd_worker[t].response.value
                                ELSE sd_worker[t].response.step

\* C29 as stated: K clients that send inc for one key at the same time, or
\* advance-command-step for one active workflow, raise the counter by
\* exactly K, and their K replies carry the K consecutive numbers.
C29_AtomicCounter ==
    \A cmd \in IncCommands :
        Counted(cmd) =>
            /\ counted(sd_state, cmd, "s1") = Base + Cardinality(Busy)
            /\ \A t \in Busy : sd_worker[t].response.status = "ok"
            /\ {Carried(t) : t \in Busy} = (Base + 1)..(Base + Cardinality(Busy))

\* What does hold: the counter is raised by exactly K, the numbers assigned
\* under the lock are the K consecutive ones, and no two replies that
\* carry a number carry the same.
CounterCountsEveryClient ==
    \A cmd \in IncCommands :
        Counted(cmd) =>
            /\ counted(sd_state, cmd, "s1") = Base + Cardinality(Busy)
            /\ cmd = "inc" =>
                    {sd_worker[t].value : t \in Busy}
                        = (Base + 1)..(Base + Cardinality(Busy))
            /\ \A t, u \in Busy :
                    /\ t # u
                    /\ sd_worker[t].response.status = "ok"
                    /\ sd_worker[u].response.status = "ok"
                    => Carried(t) # Carried(u)

\* Thread t has changed the store while serving its command.
Applied(t) ==
    \/ sd_worker[t].cmd = "inc" /\ sd_worker[t].value # -1
    \/ sd_worker[t].cmd = "advance-command-step" /\ sd_worker[t].pc \in {"save", "save_write", "save_rename", "done"}
            /\ sd_worker[t].workflow_type # None

\* Every command in flight has returned.
AllReturned == Busy # {} /\ \A t \in Busy : sd_worker[t].pc = "done"

\* daemon-state.json is a complete document whenever it exists.
FileParses == sd_file.content \in {"absent", "complete"}

\* Every command that changed the store and has returned, returned ok.
AppliedReturnsOk ==
    \A t \in Threads :
        (sd_worker[t].pc = "done" /\ Applied(t)) => sd_worker[t].response.status = "ok"

\* Once every command in flight has returned, the file holds the store.
FileIsStoreWhenQuiet == AllReturned => sd_file = Written(sd_state)

\* C34 as stated: with several threads handling mutating commands at the
\* same time, daemon-state.json is always a complete document, every
\* command whose mutation was applied returns status ok, and once all
\* commands in flight have returned the file equals the store in memory.
C34_CompleteSnapshot == FileParses /\ AppliedReturnsOk /\ FileIsStoreWhenQuiet

(***************************************************************************)
(* Properties of the sessions                                              *)
(***************************************************************************)
\* The entries of map d that belong to session s, the session being given
\* by session_of.
Of(d, s, session_of(_)) == [k \in {x \in DOMAIN d : session_of(x) = s} |-> d[k]]

Itself(k) == k

First(k) == k[1]

\* Everything store st holds for session s.
SessionKeys(st, s) ==
    [workflow_stack |-> Of(st.workflow_stack, s, Itself),
     command_step |-> Of(st.command_step, s, First),
     protocol |-> Of(st.protocol, s, First),
     gate |-> Of(st.gate, s, First)]

\* The session-scoped commands.
SessionCommands ==
    {"push-workflow", "pop-workflow", "set-workflow-phase", "set-validation",
     "set-gate", "set-command-step", "advance-command-step",
     "clear-workflow-stack", "clear-session"}

\* C39 as stated: a session-scoped command given session id s changes only
\* keys of session s, and clear-session s removes exactly the keys of
\* session s, leaving the keys of every other session and all keys of no
\* session unchanged.
C39_SessionIsolation ==
    [][sd_request'.cmd \in SessionCommands =>
        /\ \A s \in IsoSessions \ {sd_request'.session} :
                SessionKeys(sd_state', s) = SessionKeys(sd_state, s)
        /\ sd_state'.counter = sd_state.counter
        /\ sd_request'.cmd = "clear-session" =>
                SessionKeys(sd_state', sd_request'.session)
                    = SessionKeys(EmptyStore, sd_request'.session)]_vars

\* What does hold: every session-scoped command but clear-session changes
\* only keys of its session, and clear-session s removes every key of
\* session s and no key of no session.
SessionIsolationButClear ==
    [][sd_request'.cmd \in SessionCommands =>
        /\ sd_request'.cmd # "clear-session" =>
            \A s \in IsoSessions \ {sd_request'.session} :
                SessionKeys(sd_state', s) = SessionKeys(sd_state, s)
        /\ sd_state'.counter = sd_state.counter
        /\ sd_request'.cmd = "clear-session" =>
                SessionKeys(sd_state', sd_request'.session)
                    = SessionKeys(EmptyStore, sd_request'.session)]_vars

(***************************************************************************)
(* Properties of check-sequence                                            *)
(***************************************************************************)
\* The step stored for the key the clients check.
StoredStep == Get(sd_state.counter, step_key_of(SeqKey), 0)

\* The stored step after this step.
StoredStepAfter == Get(sd_state'.counter, step_key_of(SeqKey), 0)

\* Thread t decides in this step, under the lock.
Decides(t) == sd_worker[t].pc = "check" /\ sd_worker'[t].pc # "check"

\* Thread t has its reply ready in this step.
Returns(t) ==
    /\ sd_worker[t].cmd = "check-sequence"
    /\ sd_worker[t].pc # "done"
    /\ sd_worker'[t].pc = "done"

\* The step is allowed: required_step <= current_step + 1.
Reachable(required_step, current_step) == required_step <= current_step + 1

Max(a, b) == IF a >= b THEN a ELSE b

\* The stored step never decreases, rises by at most 1 per step of any
\* thread, and a deciding thread stores max(current_step, required_step)
\* exactly when the step is allowed.
StepsInOrder ==
    /\ StoredStepAfter >= StoredStep
    /\ StoredStepAfter <= StoredStep + 1
    /\ \A t \in Threads :
        Decides(t) =>
            StoredStepAfter =
                IF Reachable(sd_worker[t].step, StoredStep)
                THEN Max(StoredStep, sd_worker[t].step)
                ELSE StoredStep

\* C32 as stated: check-sequence answers allowed = true exactly when
\* required_step <= current_step + 1, the stored step then being
\* max(current_step, required_step), and answers allowed = false leaving the
\* stored step unchanged otherwise; the stored step never decreases and
\* rises by at most 1 per call, also when calls for one key run concurrently.
C32_CheckSequence ==
    [][/\ StepsInOrder
       /\ \A t \in Threads :
            Returns(t) =>
                /\ sd_worker'[t].response.status = "ok"
                /\ sd_worker'[t].response.allowed
                        <=> Reachable(sd_worker'[t].step, sd_worker'[t].base)]_vars

\* What does hold: the steps are stored in order under every interleaving,
\* and a reply that carries a decision carries the one taken under the lock.
CheckSequenceStepsInOrder ==
    [][/\ StepsInOrder
       /\ \A t \in Threads :
            (Returns(t) /\ sd_worker'[t].response.status = "ok") =>
                /\ sd_worker'[t].response.allowed
                        <=> Reachable(sd_worker'[t].step, sd_worker'[t].base)
                /\ sd_worker'[t].response.step =
                        IF sd_worker'[t].response.allowed
                        THEN Max(sd_worker'[t].base, sd_worker'[t].step)
                        ELSE sd_worker'[t].base]_vars

(***************************************************************************)
(* Properties of the approval                                              *)
(***************************************************************************)
\* checkpoint(execute-agent) succeeds in the Execute phase.
Executed ==
    /\ Handled("checkpoint")
    /\ request'.agent = "forge:execute-agent"
    /\ state.phase = 4
    /\ response'.success

\* C30 as stated: whenever checkpoint(execute-agent) succeeds in the Execute
\* phase, the stored design_hash is the one that was stored when confirm()
\* last succeeded, None included.
C30_NoStaleApproval ==
    [][Executed => state.design_hash = approved]_vars

\* What does hold: an approval given while a design_hash was stored
\* authorizes the execution of that design_hash only.
NoStaleApprovalOfRecordedDesign ==
    [][Executed /\ approved # None => state.design_hash = approved]_vars

\* C37: in every state reachable through the phase-machine operations,
\* confirmed = true implies phase >= 4; confirmed turns true only by a
\* confirm at the Execute phase, and every step that lowers the phase leaves
\* confirmed false.
C37_ConfirmedOnlyFromExecute ==
    [][/\ state'.confirmed => state'.phase >= 4
       /\ (state'.confirmed /\ ~state.confirmed) =>
                Handled("confirm") /\ state.phase = 4
       /\ state'.phase < state.phase => ~state'.confirmed]_vars

\* The Execute checkpoint has just advanced a confirmed workflow: confirmed
\* is still true at the Validate phase.
C37_Witness ==
    /\ request.cmd = "checkpoint"
    /\ response.success
    /\ state.confirmed
    /\ state.phase = 5

\* The workflow of st was completed by a checkpoint at MAX_PHASE.
AfterCompletion(st) ==
    /\ ~st.forge_active
    /\ st.phase = MAX_PHASE
    /\ st.checkpoints # <<>>
    /\ st.checkpoints[Len(st.checkpoints)].phase = MAX_PHASE

\* A checkpoint on an inactive workflow fails and changes nothing, and only
\* activate makes a workflow active.
InactiveStaysInactive ==
    /\ (Handled("checkpoint") /\ ~state.forge_active) =>
            /\ ~response'.success
            /\ response'.error = "Forge not active"
            /\ state' = state
            /\ state_file' = state_file
    /\ (state'.forge_active /\ ~state.forge_active) => Handled("activate")

\* C38 as stated: a checkpoint on an inactive workflow fails and changes
\* nothing, only activate makes a workflow active again, and after
\* completion the phase stays at MAX_PHASE until the next activate.
C38_PhaseStaysAfterCompletion ==
    [][/\ InactiveStaysInactive
       /\ (AfterCompletion(state) /\ ~Handled("activate")) =>
                state'.phase = MAX_PHASE]_vars

\* C38: a checkpoint on an inactive workflow fails and changes nothing, only
\* activate makes a workflow active again, and after completion the phase
\* stays at MAX_PHASE until the next activate or set_phase.
C38_InactiveNotAdvanced ==
    [][/\ InactiveStaysInactive
       /\ (AfterCompletion(state) /\ ~Handled("activate") /\ ~Handled("set-phase")) =>
                state'.phase = MAX_PHASE]_vars

\* A checkpoint has just been refused on a completed workflow.
C38_Witness ==
    /\ AfterCompletion(state)
    /\ request.cmd = "checkpoint"
    /\ ~response.success
    /\ response.error = "Forge not active"

(***************************************************************************)
(* Properties of the checkpoint log                                        *)
(***************************************************************************)
\* The checkpoints list of st has one entry per phase passed, in order, each
\* with the phase's authorized agent.
LogMatchesPhase(st) ==
    /\ Len(st.checkpoints) = st.phase
    /\ \A i \in 1..Len(st.checkpoints) :
            /\ st.checkpoints[i].phase = i - 1
            /\ st.checkpoints[i].agent = PHASES[i - 1].agent

\* C36: in a run without set_phase, while the workflow is active the
\* checkpoints list has exactly `phase` entries, the i-th of them (counted
\* from 0) records phase i with that phase's authorized agent, and a failed
\* checkpoint appends nothing.
C36_CheckpointLogMatchesPhase ==
    [][/\ state'.forge_active => LogMatchesPhase(state')
       /\ (Handled("checkpoint") /\ ~response'.success) =>
                state'.checkpoints = state.checkpoints]_vars

\* A checkpoint with the wrong agent has just failed in phase 5 of an active
\* workflow whose log holds the five checkpoints made so far.
C36_Witness ==
    /\ state.forge_active
    /\ state.phase = 5
    /\ Len(state.checkpoints) = 5
    /\ request.cmd = "checkpoint"
    /\ request.agent # PHASES[5].agent
    /\ ~response.success

(***************************************************************************)
(* Properties of the validation protocol CLI                               *)
(***************************************************************************)
\* The step is mark-validation <name> passed, with or without --from-hook.
MarkedPassed(name, from_hook) ==
    /\ cli'.cmd = "mark-validation"
    /\ cli'.name = name
    /\ cli'.status = "passed"
    /\ cli'.from_hook = from_hook

\* Validation n turns passed in this step.
BecomesPassed(n) ==
    status_of(wf_file', n) = "passed" /\ status_of(wf_file, n) # "passed"

\* C4 as stated: a validation with dependencies becomes passed only in a
\* step taken while every one of its dependencies is passed.
C4_DependencySoundness ==
    [][\A n \in DOMAIN wf_file'.validations :
        (wf_file'.validations[n].dependencies # {} /\ BecomesPassed(n)) =>
            \A d \in wf_file'.validations[n].dependencies :
                status_of(wf_file, d) = "passed"]_vars

\* C5: in an initialised workflow, mark-validation <name> passed without
\* --from-hook on an agent-required validation leaves it claimed, verified
\* by manual_attempt, and exits 1; and an agent-required validation becomes
\* passed only by a mark-validation <name> passed --from-hook, which records
\* verified_by = hook.
C5_AntiBypass ==
    [][\A n \in AGENT_REQUIRED :
        /\ (wf_file.exists /\ MarkedPassed(n, FALSE)) =>
                /\ wf_file'.validations[n].status = "claimed"
                /\ wf_file'.validations[n].verified_by = "manual_attempt"
                /\ cli'.exit = 1
        /\ BecomesPassed(n) =>
                /\ MarkedPassed(n, TRUE)
                /\ wf_file'.validations[n].verified_by = "hook"
                /\ cli'.exit = 0]_vars

\* A manual attempt to pass functional_test has just been turned into claimed.
C5_Witness ==
    /\ wf_file.exists
    /\ cli.cmd = "mark-validation"
    /\ cli.name = "functional_test"
    /\ cli.status = "passed"
    /\ ~cli.from_hook
    /\ cli.exit = 1
    /\ wf_file.validations["functional_test"].status = "claimed"
    /\ wf_file.validations["functional_test"].verified_by = "manual_attempt"

\* Every validation the workflow type's protocol requires is passed.
AllRequiredPassed(doc) ==
    LET protocol == WORKFLOW_PROTOCOLS[doc.workflow_type]
    IN  \A n \in DOMAIN protocol :
            protocol[n].required => status_of(doc, n) = "passed"

\* C6 as stated: verify-protocol exits 0 exactly when every required
\* validation is passed, and exits 2 otherwise.
C6_VerifyIffAllRequiredPassed ==
    (cli.cmd = "verify-protocol" /\ wf_file.exists) =>
        /\ cli.exit \in {0, 2}
        /\ cli.exit = 0 <=> AllRequiredPassed(wf_file)

\* The dependencies the workflow type's protocol declares for a validation:
\* none for a name outside the protocol, or when no workflow is initialised.
Dependencies(doc, name) ==
    IF doc.exists /\ name \in DOMAIN WORKFLOW_PROTOCOLS[doc.workflow_type]
    THEN WORKFLOW_PROTOCOLS[doc.workflow_type][name].dependencies
    ELSE {}

\* The dependencies of a validation that are not passed.
Unmet(doc, name) ==
    {d \in Dependencies(doc, name) : status_of(doc, d) # "passed"}

\* C13: check-deps <name> exits 0 exactly when every dependency of the
\* validation has status passed; otherwise (a dependency pending, executed,
\* failed or claimed) it exits 2 and lists each unsatisfied dependency with
\* its current status.
C13_CheckDepsIffAllPassed ==
    cli.cmd = "check-deps" =>
        /\ cli.exit \in {0, 2}
        /\ cli.exit = 0 <=> Unmet(wf_file, cli.name) = {}
        /\ cli.failed_deps =
                {[dep |-> d, status |-> status_of(wf_file, d)] :
                    d \in Unmet(wf_file, cli.name)}

\* check-deps functional_test has just been blocked in a skill_creation
\* workflow, listing one dependency as executed and the other as claimed.
C13_Witness ==
    /\ cli.cmd = "check-deps"
    /\ cli.name = "functional_test"
    /\ cli.exit = 2
    /\ cli.failed_deps =
            {[dep |-> "validate_all", status |-> "executed"],
             [dep |-> "form_selection_audit", status |-> "claimed"]}

\* The state daemon's check-validation-deps answers the same way: allowed
\* exactly when every dependency named has a passed entry, and otherwise
\* each other dependency listed with its status, pending when it has none.
CheckValidationDepsSound ==
    sd_request.cmd = "check-validation-deps" =>
        LET deps == SelectSeq(sd_request.arg, LAMBDA d : d # "")
            status(d) == Get(sd_state.protocol, <<"s1", "skill_creation", d>>, "pending")
            unmet == {i \in 1..Len(deps) : status(deps[i]) # "passed"}
        IN  /\ sd_response.allowed <=> unmet = {}
            /\ Len(sd_response.failed_deps) = Cardinality(unmet)
            /\ \A i \in unmet :
                    \E j \in 1..Len(sd_response.failed_deps) :
                        sd_response.failed_deps[j] =
                            [name |-> deps[i], status |-> status(deps[i])]

\* C14: suggest-parallel prints exactly the validations whose status is
\* pending and all of whose dependencies are passed, those without
\* dependencies included; none that is executed, passed, failed or claimed
\* and none with an unmet dependency.
C14_SuggestParallelExact ==
    cli.cmd = "suggest-parallel" =>
        /\ cli.exit = 0
        /\ cli.runnable =
                {n \in DOMAIN wf_file.validations :
                    /\ status_of(wf_file, n) = "pending"
                    /\ Unmet(wf_file, n) = {}}

\* suggest-parallel in a skill_creation workflow with validate_all passed
\* and form_selection_audit failed: content_quality_audit is ready,
\* functional_test and plugin_test are held back.
C14_Witness ==
    /\ cli.cmd = "suggest-parallel"
    /\ wf_file.exists
    /\ wf_file.workflow_type = "skill_creation"
    /\ wf_file.validations["validate_all"].status = "passed"
    /\ wf_file.validations["form_selection_audit"].status = "failed"
    /\ cli.runnable = {"content_quality_audit"}

\* Where a status stands in the lattice pending -> executed -> {passed | failed};
\* claimed stands beside executed and is never counted as passed.
Rank(status) ==
    CASE status = "pending" -> 0
      [] status \in {"executed", "claimed"} -> 1
      [] OTHER -> 2

\* C31 as stated: over mark-validation calls a node's status only moves up
\* the lattice pending -> executed -> {passed | failed}; in particular a
\* passed node is never moved back to executed or pending by a later mark.
C31_StatusLattice ==
    [][cli'.cmd = "mark-validation" =>
        \A n \in DOMAIN wf_file.validations :
            /\ Rank(status_of(wf_file', n)) >= Rank(status_of(wf_file, n))
            /\ status_of(wf_file, n) = "passed" =>
                    status_of(wf_file', n) \notin {"executed", "pending"}]_vars

\* What does hold: no mark-validation puts a node back to pending, and a
\* mark changes the status of the node it names only.
MarkNeverBackToPending ==
    [][cli'.cmd = "mark-validation" =>
        \A n \in DOMAIN wf_file.validations :
            /\ status_of(wf_file, n) # "pending" => status_of(wf_file', n) # "pending"
            /\ n # cli'.name => status_of(wf_file', n) = status_of(wf_file, n)]_vars

\* The last invocation was require-gate.
Required == cli.cmd = "require-gate"

\* The gate named on the command line is passed in the document.
GatePassed(doc, name) == doc.exists /\ name \in GATES /\ doc.gates_passed[name]

\* Gate g is passed in this step / reset in this step.
GateRises(g) == GatePassed(wf_file', g) /\ ~GatePassed(wf_file, g)

GateFalls(g) == GatePassed(wf_file, g) /\ ~GatePassed(wf_file', g)

C35_PhasesInSequence ==
    wf_file.exists =>
        \A i \in 1..Len(CLI_PHASES) :
            wf_file.phases[i] \in {"in_progress", "completed"} =>
                \A j \in 1..(i - 1) : wf_file.phases[j] = "completed"

\* What does hold: start-phase exits 2 unless every earlier phase is
\* completed, complete-phase is refused unless the phase is in_progress, and
\* a phase is never completed before every earlier phase was completed at the
\* time it was started.
PhaseStartsAfterEarlierCompleted ==
    [][/\ cli'.cmd = "start-phase" =>
            \A i \in 1..Len(CLI_PHASES) :
                (wf_file.exists /\ cli'.name = CLI_PHASES[i]) =>
                    IF \A j \in 1..(i - 1) : wf_file.phases[j] = "completed"
                    THEN cli'.exit = 0 /\ wf_file'.phases[i] = "in_progress"
                    ELSE cli'.exit = 2 /\ wf_file' = wf_file
       /\ cli'.cmd = "complete-phase" =>
            \A i \in 1..Len(CLI_PHASES) :
                (wf_file.exists /\ cli'.name = CLI_PHASES[i]) =>
                    IF wf_file.phases[i] = "in_progress"
                    THEN cli'.exit = 0 /\ wf_file'.phases[i] = "completed"
                    ELSE cli'.exit # 0 /\ wf_file' = wf_file]_vars

(***************************************************************************)
(* Properties of the workflow stack                                        *)
(***************************************************************************)
\* log is n push-workflow commands followed by k pop-workflow commands.
PushesThenPops(log, n, k) ==
    /\ Len(log) = n + k
    /\ \A i \in 1..n : log[i].cmd = "push-workflow"
    /\ \A i \in (n + 1)..(n + k) : log[i].cmd = "pop-workflow"

\* C7: in a session that started with an empty stack and has so far seen n
\* pushes followed by k <= n pops, every pop succeeded and returned the
\* workflow types in the reverse of the push order, n - k entries are left
\* (none when k = n), and after a pop that leaves entries the top one is
\* not suspended.
C7_StackLIFO ==
    \A s \in Sessions : \A n \in 1..MaxObserved : \A k \in 0..n :
        LET log == SeenBy(s)
            stack == Get(sd_state.workflow_stack, s, <<>>)
        IN  PushesThenPops(log, n, k) =>
                /\ \A i \in 1..k :
                        /\ log[n + i].status = "ok"
                        /\ log[n + i].workflow_type = log[n + 1 - i].workflow_type
                /\ Len(stack) = n - k
                /\ (k >= 1 /\ k < n) => ~stack[Len(stack)].suspended

\* Session s1 pushed two workflows of different types and popped both again.
C7_Witness ==
    LET log == SeenBy("s1")
    IN  /\ PushesThenPops(log, 2, 2)
        /\ log[1].workflow_type # log[2].workflow_type
        /\ log[3].workflow_type = log[2].workflow_type
        /\ log[4].workflow_type = log[1].workflow_type
        /\ "s1" \in DOMAIN sd_state.workflow_stack
        /\ sd_state.workflow_stack["s1"] = <<>>

\* C15: in every state reached through push-workflow, pop-workflow and
\* set-workflow-phase (and clear-workflow-stack), each session's non-empty
\* stack has its top entry not suspended and every entry below it suspended.
C15_SingleActiveWorkflow ==
    \A s \in DOMAIN sd_state.workflow_stack :
        LET stack == sd_state.workflow_stack[s]
        IN  \A i \in 1..Len(stack) : stack[i].suspended <=> i < Len(stack)

\* Session s1 is back at two entries after a pop from three: the entry the
\* pop resumed is on top, its parent below it.
C15_Witness ==
    /\ sd_request.cmd = "pop-workflow"
    /\ sd_request.session = "s1"
    /\ sd_response.status = "ok"
    /\ sd_response.depth = 2
    /\ Len(Get(sd_state.workflow_stack, "s1", <<>>)) = 2

\* What the first i commands a session's clients saw leave on its stack:
\* for each entry its workflow type and the phase label its parent had when
\* it was pushed (None for the bottom entry).
RECURSIVE Pushed(_, _)
Pushed(log, i) ==
    IF i = 0 THEN <<>>
    ELSE LET before == Pushed(log, i - 1)
             e == log[i]
         IN  CASE e.cmd = "push-workflow" ->
                    Append(before, [workflow_type |-> e.workflow_type,
                                    parent_phase |-> e.phase_before])
               [] e.cmd = "pop-workflow" /\ e.status = "ok" ->
                    SubSeq(before, 1, Len(before) - 1)
               [] e.cmd = "clear-workflow-stack" -> <<>>
               [] OTHER -> before

\* C16: if the top entry's phase label is p when push-workflow is called,
\* the pop-workflow that removes the pushed entry returns resume_phase = p
\* and resumed_workflow = the parent's type, and the resumed parent's
\* current phase label is p, whatever set-workflow-phase calls were made on
\* the nested workflow in between.
C16_SuspendResumeRoundTrip ==
    \A s \in Sessions :
        LET log == SeenBy(s)
        IN  \A i \in 1..Len(log) :
                LET before == Pushed(log, i - 1)
                IN  (log[i].cmd = "pop-workflow" /\ Len(before) >= 2) =>
                        /\ log[i].status = "ok"
                        /\ log[i].resume_phase = before[Len(before)].parent_phase
                        /\ log[i].phase_after = before[Len(before)].parent_phase
                        /\ log[i].resumed_workflow =
                                before[Len(before) - 1].workflow_type

\* Session s1 pushed a workflow over one at phase "init", moved the nested
\* workflow to "design" and popped it: the pop said to resume at "init".
C16_Witness ==
    LET log == SeenBy("s1")
    IN  /\ Len(log) = 3
        /\ log[1].cmd = "push-workflow"
        /\ log[2].cmd = "push-workflow"
        /\ log[2].phase_before = "init"
        /\ log[3].cmd = "pop-workflow"
        /\ log[3].phase_before = "design"
        /\ log[3].resume_phase = "init"
        /\ log[3].phase_after = "init"
        /\ log[3].resumed_workflow = log[1].workflow_type

\* The step is the state daemon answering cmd for a session whose stack is
\* empty, or not empty.
OnEmptyStack(cmd) ==
    /\ sd_request'.cmd = cmd
    /\ Get(sd_state.workflow_stack, sd_request'.session, <<>>) = <<>>

OnStack(cmd) ==
    /\ sd_request'.cmd = cmd
    /\ Get(sd_state.workflow_stack, sd_request'.session, <<>>) # <<>>

\* The step answers with an error and changes neither the store nor the file.
SdRejected(message) ==
    /\ sd_response'.status = "error"
    /\ sd_response'.message = message
    /\ sd_state' = sd_state
    /\ sd_file' = sd_file

\* C17: pop-workflow on a session without entries fails with the
\* empty-stack error and set-workflow-phase with the no-active-workflow
\* error, the whole store (other sessions' stacks included) unchanged; and
\* set-workflow-phase on a non-empty stack succeeds and changes only the
\* top entry's phase label.
C17_EmptyStackErrors ==
    [][/\ OnEmptyStack("pop-workflow") => SdRejected("Stack empty")
       /\ OnEmptyStack("set-workflow-phase") => SdRejected("No active workflow")
       /\ OnStack("set-workflow-phase") =>
            LET s == sd_request'.session
                stack == sd_state.workflow_stack[s]
            IN  /\ sd_response'.status = "ok"
                /\ sd_state' =
                        [sd_state EXCEPT !.workflow_stack[s] =
                            [stack EXCEPT ![Len(stack)].current_phase =
                                            sd_request'.arg]]]_vars

\* pop-workflow has just been refused for session s1, whose stack is empty,
\* while session s2 has a workflow on its stack.
C17_Witness ==
    /\ sd_request.cmd = "pop-workflow"
    /\ sd_request.session = "s1"
    /\ sd_response.status = "error"
    /\ sd_response.message = "Stack empty"
    /\ Get(sd_state.workflow_stack, "s1", <<>>) = <<>>
    /\ Get(sd_state.workflow_stack, "s2", <<>>) # <<>>

(***************************************************************************)
(* Properties of the daemons under concurrent connections                  *)
(***************************************************************************)
\* The threads that have replied to the clients connected at present.
Replied == {t \in Threads : worker[t].pc = "done"}

\* Every connected client has its reply.
Quiet == \A t \in Threads : worker[t].pc \in {"idle", "done"}

\* The orders in which the threads of S can be served one at a time.
Orders(S) ==
    {o \in [1..Cardinality(S) -> S] :
        \A i, j \in 1..Cardinality(S) : i # j => o[i] # o[j]}

\* The document after the first i checkpoints of order o, applied one at a
\* time to st.
RECURSIVE AfterServing(_, _, _)
AfterServing(st, o, i) ==
    IF i = 0
    THEN st
    ELSE checkpoint(AfterServing(st, o, i - 1), worker[o[i]].agent).st

\* The document and every reply are those of serving the clients in order o.
SerialOutcome(o) ==
    /\ state = AfterServing(round_start, o, Cardinality(Replied))
    /\ \A i \in 1..Cardinality(Replied) :
            worker[o[i]].response =
                checkpoint(AfterServing(round_start, o, i - 1),
                           worker[o[i]].agent).resp

\* C8 as stated, for the phase daemon: once the concurrently connected
\* clients all have their replies, the document and the replies are those
\* of applying the same checkpoint commands one at a time in some order.
C8_SerializedMutation ==
    (Quiet /\ Replied # {}) => \E o \in Orders(Replied) : SerialOutcome(o)

\* The state daemon's side of the same statement: a set-command-step or
\* advance-command-step writes the step key of the workflow that is the top
\* of the session's stack at the moment of the write.
StepWrittenForTop ==
    [][\A t \in Threads :
        (sd_worker[t].pc = "write_step" /\ sd_worker'[t].pc = "save") =>
            LET stack == Get(sd_state.workflow_stack, sd_worker[t].session, <<>>)
            IN  /\ stack # <<>>
                /\ stack[Len(stack)].workflow_type = sd_worker[t].workflow_type]_vars

(***************************************************************************)
(* Properties of the saves                                                 *)
(***************************************************************************)
\* C10 as stated: whenever one of the three programs has been killed, at
\* whatever point of a save, its state file holds a complete document (or,
\* for the state daemon's file when it was never written, does not exist):
\* never an empty or a partial one.
C10_AtomicPersistence ==
    /\ ~running => state_file.content = "complete"
    /\ inflight.cli.pc = "killed" => wf_disk = "complete"
    /\ inflight.sd.pc = "killed" => sd_file.content \in {"absent", "complete"}

\* The state daemon's file alone, which is written through daemon-state.tmp.
StateDaemonFileWhole ==
    inflight.sd.pc = "killed" => sd_file.content \in {"absent", "complete"}

\* The phase daemon's file alone.
PhaseDaemonFileWhole == ~running => state_file.content = "complete"

\* The workflow file of forge-state.py alone.
WorkflowFileWhole == inflight.cli.pc = "killed" => wf_disk = "complete"
====
